---- MODULE Spec2Model ----
(***************************************************************************)
(* Model of the quant_agent backtesting core: Portfolio                    *)
(* (portfolio/portfolio.py), OrderExecutor (execution/executor.py), the    *)
(* RiskManager (risk/risk_manager.py) and the daily loop of the Backtester *)
(* (backtest/backtester.py).                                               *)
(*                                                                         *)
(* Numbers.  The program computes with Python floats.  The model computes  *)
(* with exact rationals <<numerator, denominator>> in lowest terms, the    *)
(* unit being one currency unit (1.0).  The input sets below hold values   *)
(* for which no product that the executor rounds lies on a half-cent tie,  *)
(* so Round2 agrees with Python's round(x, 2) on them, and no quotient     *)
(* that the RiskManager truncates is a whole number that the float         *)
(* computation misses; float representation error itself (of the order of *)
(* 1e-16 relative) is not modelled.                                        *)
(***************************************************************************)
EXTENDS Integers, Sequences, FiniteSets, TLC

VARIABLES
    initial_capital,  \* Portfolio.initial_capital
    cash,             \* Portfolio.cash
    positions,        \* Portfolio.positions: symbol -> Position
    trade_history,    \* Portfolio.trade_history: sequence of TradeRecord
    realized_pnl,     \* Portfolio._realized_pnl
    commission_rate,  \* OrderExecutor.commission_rate
    slippage,         \* OrderExecutor.slippage
    order_history,    \* OrderExecutor.order_history: sequence of Order
    limits,           \* RiskManager.limits
    peak_equity,      \* RiskManager._peak_equity
    seen,             \* the equities shown to the RiskManager since its last
                      \* reset, and whether a drawdown check has triggered
    backtester,       \* Backtester.run: its arguments and locals, and the
                      \* results returned so far
    equity_history,   \* Portfolio.equity_history: sequence of snapshots
    call,             \* the last call made: its name and arguments
    ret,              \* what the last call returned
    pre               \* the Portfolio and the orders as they were before it

pvars == <<initial_capital, cash, positions, trade_history, realized_pnl>>
evars == <<commission_rate, slippage, order_history>>
rvars == <<limits, peak_equity, seen>>
bvars == <<backtester, equity_history>>
vars == <<initial_capital, cash, positions, trade_history, realized_pnl,
          commission_rate, slippage, order_history, limits, peak_equity,
          seen, backtester, equity_history, call, ret, pre>>

----------------------------------------------------------------------------
(* Exact rational arithmetic standing for the float operators.             *)

Abs(n) == IF n < 0 THEN -n ELSE n

RECURSIVE GCD(_, _)
GCD(a, b) == IF b = 0 THEN a ELSE GCD(b, a % b)

\* n/d in lowest terms with a positive denominator (d # 0).
Norm(n, d) ==
    LET g == GCD(Abs(n), Abs(d))
        s == IF d < 0 THEN -1 ELSE 1
    IN  <<(s * n) \div g, (s * d) \div g>>

R(n) == <<n, 1>>
Zero == R(0)
LCM(a, b) == (a \div GCD(a, b)) * b

RAdd(x, y) ==
    LET l == LCM(x[2], y[2])
    IN  Norm(x[1] * (l \div x[2]) + y[1] * (l \div y[2]), l)
RNeg(x) == <<-x[1], x[2]>>
RSub(x, y) == RAdd(x, RNeg(y))
\* x * y, cancelling crosswise first: the result is in lowest terms
RMul(x, y) ==
    LET g1 == GCD(Abs(x[1]), y[2])
        g2 == GCD(Abs(y[1]), x[2])
    IN  <<(x[1] \div g1) * (y[1] \div g2), (x[2] \div g2) * (y[2] \div g1)>>
\* x / y, for y # 0
RDiv(x, y) == RMul(x, Norm(y[2], y[1]))
\* a/b < c/d for b, d > 0, by continued fractions: no product is formed, so
\* the comparison stays within the integers TLC computes with.
RECURSIVE FracLt(_, _, _, _)
FracLt(a, b, c, d) ==
    LET qa == a \div b
        qc == c \div d
        ra == a - qa * b
        rc == c - qc * d
    IN  IF qa # qc THEN qa < qc
        ELSE IF rc = 0 THEN FALSE
        ELSE IF ra = 0 THEN TRUE
        ELSE FracLt(d, rc, b, ra)

RLt(x, y) == FracLt(x[1], x[2], y[1], y[2])
RLe(x, y) == ~RLt(y, x)
RGt(x, y) == RLt(y, x)
RGe(x, y) == ~RLt(x, y)

\* Python's int(x) on a float: truncation towards zero.
IntTrunc(x) ==
    IF x[1] >= 0 THEN x[1] \div x[2] ELSE -((-x[1]) \div x[2])

\* The integer nearest to x, a tie going to the even neighbour.
RoundHalfEven(x) ==
    LET f == x[1] \div x[2]           \* floor, the denominator being positive
        twice == 2 * (x[1] - f * x[2])  \* twice the fractional part, times x[2]
    IN  IF twice < x[2] THEN f
        ELSE IF twice > x[2] THEN f + 1
        ELSE IF f % 2 = 0 THEN f ELSE f + 1

\* Python's round(x, 2).
Round2(x) == Norm(RoundHalfEven(RMul(x, R(100))), 100)

----------------------------------------------------------------------------
(* Bounds of the model.                                                    *)

MaxTrades == 2
MaxOrders == 2

Symbols == {"A", "B"}
Quantities == {-1, 0, 1, 100}
Prices == {R(10), R(12)}
Commissions == {Zero, R(50)}
Capitals == {R(20), R(2500)}

----------------------------------------------------------------------------
(* Portfolio                                                               *)

Position(symbol, quantity, avg_price, current_price) ==
    [symbol |-> symbol, quantity |-> quantity,
     avg_price |-> avg_price, current_price |-> current_price]

\* (a variant valuing the position at its cost)
market_value_at_cost(pos) == RMul(R(pos.quantity), pos.avg_price)
market_value(pos) == RMul(R(pos.quantity), pos.current_price)
cost_basis(pos) == RMul(R(pos.quantity), pos.avg_price)
position_unrealized_pnl(pos) == RSub(market_value(pos), cost_basis(pos))

TradeRecord(date, symbol, side, quantity, price, commission, pnl) ==
    [date |-> date, symbol |-> symbol, side |-> side, quantity |-> quantity,
     price |-> price, commission |-> commission, pnl |-> pnl]

\* sum(f(pos) for pos in poss.values())
RECURSIVE SumValues(_, _, _)
SumValues(poss, syms, kind) ==
    IF syms = {} THEN Zero
    ELSE LET s == CHOOSE x \in syms : TRUE
             v == IF kind = "market_value" THEN market_value(poss[s])
                  ELSE position_unrealized_pnl(poss[s])
         IN  RAdd(v, SumValues(poss, syms \ {s}, kind))

ValueOfPositions(poss) == SumValues(poss, DOMAIN poss, "market_value")
EquityOf(c, poss) == RAdd(c, ValueOfPositions(poss))

total_position_value == ValueOfPositions(positions)
total_equity == EquityOf(cash, positions)
unrealized_pnl == SumValues(positions, DOMAIN positions, "unrealized_pnl")

Snapshot ==
    [cash |-> cash, positions |-> positions, trade_history |-> trade_history,
     realized_pnl |-> realized_pnl, order_history |-> order_history,
     peak_equity |-> peak_equity, seen |-> seen,
     position_high |-> backtester.position_high,
     last_trade_date |-> backtester.last_trade_date]

Call(op, symbol, quantity, price, commission, order, rm) ==
    [op |-> op, symbol |-> symbol, quantity |-> quantity, price |-> price,
     commission |-> commission, order |-> order, rm |-> rm]

\* (a variant that forgets the commission)
TotalCostNoCommission(quantity, price, commission) == RMul(R(quantity), price)

\* total_cost = quantity * price + commission
TotalCost(quantity, price, commission) ==
    RAdd(RMul(R(quantity), price), commission)

\* The two early returns of Portfolio.buy, in the order of the code.
BuyRejected(c, quantity, price, commission) ==
    IF RGt(TotalCost(quantity, price, commission), c) THEN TRUE
    ELSE quantity <= 0

\* (a variant taking the plain mean of the two prices)
NewAvgPriceUnweighted(pos, quantity, price) ==
    RDiv(RAdd(pos.avg_price, price), R(2))

\* The average price of pos after quantity more units are bought at price.
NewAvgPrice(pos, quantity, price) ==
    RDiv(RAdd(RMul(pos.avg_price, R(pos.quantity)), RMul(price, R(quantity))),
         R(pos.quantity + quantity))

\* Portfolio.buy as a function of the Portfolio it is called on: the result
\* [ok, cash, positions, trade_history, realized_pnl].
BuyResult(c, poss, hist, rpnl, symbol, quantity, price, commission, date) ==
    LET total_cost == TotalCost(quantity, price, commission)
        unchanged == [ok |-> FALSE, cash |-> c, positions |-> poss,
                      trade_history |-> hist, realized_pnl |-> rpnl]
    IN  IF BuyRejected(c, quantity, price, commission) THEN unchanged
        ELSE LET newpos ==
                     IF symbol \in DOMAIN poss
                     THEN LET pos == poss[symbol]
                              total_quantity == pos.quantity + quantity
                          IN  Position(symbol, total_quantity,
                                       NewAvgPrice(pos, quantity, price), price)
                     ELSE Position(symbol, quantity, price, price)
                 trade == TradeRecord(date, symbol, "buy", quantity, price,
                                      commission, Zero)
             IN  [ok |-> TRUE,
                  cash |-> RSub(c, total_cost),
                  positions |-> [s \in DOMAIN poss \cup {symbol} |->
                                    IF s = symbol THEN newpos ELSE poss[s]],
                  trade_history |-> Append(hist, trade),
                  realized_pnl |-> rpnl]

\* (a variant without the check against the held quantity)
SellRejectedNoHeldCheck(poss, symbol, quantity) ==
    IF symbol \notin DOMAIN poss THEN TRUE ELSE quantity <= 0

\* The three early returns of Portfolio.sell, in the order of the code.
SellRejected(poss, symbol, quantity) ==
    IF symbol \notin DOMAIN poss THEN TRUE
    ELSE IF quantity > poss[symbol].quantity THEN TRUE
    ELSE quantity <= 0

\* (a variant that leaves the commission out of the P&L)
SellPnlNoCommission(pos, quantity, price, commission) ==
    RMul(RSub(price, pos.avg_price), R(quantity))

\* pnl = (price - pos.avg_price) * quantity - commission
SellPnl(pos, quantity, price, commission) ==
    RSub(RMul(RSub(price, pos.avg_price), R(quantity)), commission)

\* (a variant that credits the cash with the gross proceeds)
SellRevenueGross(quantity, price, commission) == RMul(R(quantity), price)

\* revenue = quantity * price - commission
SellRevenue(quantity, price, commission) ==
    RSub(RMul(R(quantity), price), commission)

\* (a variant that keeps the emptied entry)
PositionsAfterSellKeep(poss, symbol, newpos) == [poss EXCEPT ![symbol] = newpos]

\* The positions once newpos, what a sell leaves of poss[symbol], is stored:
\* the entry is deleted when nothing is left.
PositionsAfterSell(poss, symbol, newpos) ==
    IF newpos.quantity = 0
    THEN [s \in DOMAIN poss \ {symbol} |-> poss[s]]
    ELSE [poss EXCEPT ![symbol] = newpos]

\* Portfolio.sell, likewise.
SellResult(c, poss, hist, rpnl, symbol, quantity, price, commission, date) ==
    LET unchanged == [ok |-> FALSE, cash |-> c, positions |-> poss,
                      trade_history |-> hist, realized_pnl |-> rpnl]
    IN  IF SellRejected(poss, symbol, quantity) THEN unchanged
        ELSE LET pos == poss[symbol]
                 pnl == SellPnl(pos, quantity, price, commission)
                 revenue == SellRevenue(quantity, price, commission)
                 left == pos.quantity - quantity
                 newpos == Position(symbol, left, pos.avg_price, price)
                 trade == TradeRecord(date, symbol, "sell", quantity, price,
                                      commission, pnl)
             IN  [ok |-> TRUE,
                  cash |-> RAdd(c, revenue),
                  positions |-> PositionsAfterSell(poss, symbol, newpos),
                  trade_history |-> Append(hist, trade),
                  realized_pnl |-> RAdd(rpnl, pnl)]

Apply(r) ==
    /\ cash' = r.cash
    /\ positions' = r.positions
    /\ trade_history' = r.trade_history
    /\ realized_pnl' = r.realized_pnl

\* Portfolio.buy(symbol, quantity, price, commission)
Buy ==
    /\ Len(trade_history) < MaxTrades
    /\ \E symbol \in Symbols, quantity \in Quantities,
          price \in Prices, commission \in Commissions :
          LET r == BuyResult(cash, positions, trade_history, realized_pnl,
                             symbol, quantity, price, commission, "")
          IN  /\ Apply(r)
              /\ ret' = r.ok
              /\ call' = Call("buy", symbol, quantity, price, commission,
                              0, FALSE)
    /\ pre' = Snapshot
    /\ UNCHANGED <<initial_capital, evars, rvars, bvars>>

\* Portfolio.sell(symbol, quantity, price, commission)
Sell ==
    /\ Len(trade_history) < MaxTrades
    /\ \E symbol \in Symbols, quantity \in Quantities,
          price \in Prices, commission \in Commissions :
          LET r == SellResult(cash, positions, trade_history, realized_pnl,
                              symbol, quantity, price, commission, "")
          IN  /\ Apply(r)
              /\ ret' = r.ok
              /\ call' = Call("sell", symbol, quantity, price, commission,
                              0, FALSE)
    /\ pre' = Snapshot
    /\ UNCHANGED <<initial_capital, evars, rvars, bvars>>

\* Portfolio.update_prices(prices): prices maps some symbols to a price.
UpdatedPositions(poss, prices) ==
    [s \in DOMAIN poss |->
        IF s \in DOMAIN prices
        THEN [poss[s] EXCEPT !.current_price = prices[s]]
        ELSE poss[s]]

UpdatePrices ==
    /\ \E syms \in SUBSET Symbols :
          \E prices \in [syms -> Prices] :
              /\ positions' = UpdatedPositions(positions, prices)
              /\ call' = Call("update_prices", "", 0, Zero, Zero, 0, FALSE)
    /\ ret' = TRUE
    /\ pre' = Snapshot
    /\ UNCHANGED <<initial_capital, cash, trade_history, realized_pnl, evars,
                   rvars, bvars>>

----------------------------------------------------------------------------
(* RiskManager: the two checks execute_order consults.                     *)

RiskLimits(max_position_pct, max_total_position_pct, stop_loss_pct, take_profit_pct, max_drawdown_pct, max_daily_loss_pct) ==
    [max_position_pct |-> max_position_pct,
     max_total_position_pct |-> max_total_position_pct,
     stop_loss_pct |-> stop_loss_pct,
     take_profit_pct |-> take_profit_pct,
     max_drawdown_pct |-> max_drawdown_pct,
     max_daily_loss_pct |-> max_daily_loss_pct]

\* (a variant that forgets the value already held)
MaxValueIgnoringHeld(lim, current_portfolio_value, current_position_value) ==
    RMul(lim.max_position_pct, current_portfolio_value)

\* The value that may still be bought of an instrument under the limit.
MaxValue(lim, current_portfolio_value, current_position_value) ==
    RSub(RMul(lim.max_position_pct, current_portfolio_value),
         current_position_value)

\* RiskManager.check_position_size: (allowed, adjusted quantity, reason)
check_position_size(lim, symbol, proposed_quantity, price, current_portfolio_value, current_position_value) ==
    IF RLe(current_portfolio_value, Zero)
    THEN [allowed |-> FALSE, quantity |-> 0, reason |-> "portfolio value is zero"]
    ELSE LET proposed_value == RMul(R(proposed_quantity), price)
             new_position_value == RAdd(current_position_value, proposed_value)
             position_pct == RDiv(new_position_value, current_portfolio_value)
         IN  IF RGt(position_pct, lim.max_position_pct)
             THEN LET max_value ==
                          MaxValue(lim, current_portfolio_value,
                                   current_position_value)
                  IN  IF RLe(max_value, Zero)
                      THEN [allowed |-> FALSE, quantity |-> 0,
                            reason |-> "position at limit"]
                      ELSE LET adjusted_quantity == IntTrunc(RDiv(max_value, price))
                           IN  IF adjusted_quantity <= 0
                               THEN [allowed |-> FALSE, quantity |-> 0,
                                     reason |-> "position at limit"]
                               ELSE [allowed |-> TRUE,
                                     quantity |-> adjusted_quantity,
                                     reason |-> "quantity adjusted"]
             ELSE [allowed |-> TRUE, quantity |-> proposed_quantity,
                   reason |-> "ok"]

\* RiskManager.check_total_exposure: (allowed, reason)
check_total_exposure(lim, total_value, proposed_trade_value, portfolio_value) ==
    IF RLe(portfolio_value, Zero)
    THEN [allowed |-> FALSE, reason |-> "portfolio value is zero"]
    ELSE LET new_total == RAdd(total_value, proposed_trade_value)
             exposure == RDiv(new_total, portfolio_value)
         IN  IF RGt(exposure, lim.max_total_position_pct)
             THEN [allowed |-> FALSE, reason |-> "total exposure over limit"]
             ELSE [allowed |-> TRUE, reason |-> "ok"]

\* (a variant with the exclusive comparison)
StopHitStrict(pct, limit) == RGt(pct, limit)

\* The comparison of a loss, profit or drawdown fraction with its limit.
StopHit(pct, limit) == RGe(pct, limit)

\* RiskManager.check_stop_loss: (triggered, reason)
check_stop_loss(lim, entry_price, current_price) ==
    IF RLe(entry_price, Zero)
    THEN [triggered |-> FALSE, reason |-> "entry price invalid"]
    ELSE LET loss_pct == RDiv(RSub(entry_price, current_price), entry_price)
         IN  IF StopHit(loss_pct, lim.stop_loss_pct)
             THEN [triggered |-> TRUE, reason |-> "stop loss"]
             ELSE [triggered |-> FALSE, reason |-> "no stop loss"]

\* RiskManager.check_take_profit: (triggered, reason)
check_take_profit(lim, entry_price, current_price) ==
    IF RLe(entry_price, Zero)
    THEN [triggered |-> FALSE, reason |-> "entry price invalid"]
    ELSE LET profit_pct == RDiv(RSub(current_price, entry_price), entry_price)
         IN  IF RGe(profit_pct, lim.take_profit_pct)
             THEN [triggered |-> TRUE, reason |-> "take profit"]
             ELSE [triggered |-> FALSE, reason |-> "no take profit"]

\* The defaults of check_trailing_stop's trailing_pct and activation_pct.
DefaultTrailingPct == Norm(5, 100)
DefaultActivationPct == Norm(3, 100)

\* (a variant whose pullback comparison is exclusive)
check_trailing_stop_exclusive(entry_price, current_price, highest_price, trailing_pct, activation_pct) ==
    IF RLe(entry_price, Zero) \/ RLe(highest_price, Zero)
    THEN [triggered |-> FALSE, reason |-> "price invalid"]
    ELSE IF RLt(RDiv(RSub(highest_price, entry_price), entry_price),
                activation_pct)
    THEN [triggered |-> FALSE, reason |-> "not activated"]
    ELSE IF RGt(RDiv(RSub(highest_price, current_price), highest_price),
                trailing_pct)
    THEN [triggered |-> TRUE, reason |-> "trailing stop"]
    ELSE [triggered |-> FALSE, reason |-> "no trailing stop"]

\* RiskManager.check_trailing_stop: (triggered, reason)
check_trailing_stop(entry_price, current_price, highest_price, trailing_pct, activation_pct) ==
    IF RLe(entry_price, Zero) \/ RLe(highest_price, Zero)
    THEN [triggered |-> FALSE, reason |-> "price invalid"]
    ELSE LET profit_from_entry ==
                 RDiv(RSub(highest_price, entry_price), entry_price)
             pullback ==
                 RDiv(RSub(highest_price, current_price), highest_price)
         IN  IF RLt(profit_from_entry, activation_pct)
             THEN [triggered |-> FALSE, reason |-> "not activated"]
             ELSE IF RGe(pullback, trailing_pct)
             THEN [triggered |-> TRUE, reason |-> "trailing stop"]
             ELSE [triggered |-> FALSE, reason |-> "no trailing stop"]

\* (a variant in which the peak follows the latest equity)
NewPeakLatest(peak, equity) == equity

\* The peak after an equity is shown to it: the larger of the two.
NewPeak(peak, equity) == IF RGt(equity, peak) THEN equity ELSE peak

\* (a variant comparing the drawdown exclusively)
DrawdownHitStrict(peak, current_equity, limit) ==
    RGt(RDiv(RSub(peak, current_equity), peak), limit)

\* The drawdown of current_equity from a positive peak reaches the limit.
DrawdownHit(peak, current_equity, limit) ==
    RGe(RDiv(RSub(peak, current_equity), peak), limit)

\* RiskManager.check_max_drawdown: (triggered, reason) and the peak it leaves
check_max_drawdown(lim, peak, current_equity) ==
    LET p == NewPeak(peak, current_equity)
    IN  IF RLe(p, Zero)
        THEN [triggered |-> FALSE, reason |-> "equity invalid", peak |-> p]
        ELSE IF DrawdownHit(p, current_equity, lim.max_drawdown_pct)
        THEN [triggered |-> TRUE, reason |-> "max drawdown", peak |-> p]
        ELSE [triggered |-> FALSE, reason |-> "drawdown", peak |-> p]

\* RiskManager.check_daily_loss: (triggered, reason)
check_daily_loss(lim, current_equity, start_equity) ==
    IF RLe(start_equity, Zero)
    THEN [triggered |-> FALSE, reason |-> "start equity invalid"]
    ELSE LET daily_loss == RDiv(RSub(start_equity, current_equity), start_equity)
         IN  IF RGe(daily_loss, lim.max_daily_loss_pct)
             THEN [triggered |-> TRUE, reason |-> "daily loss"]
             ELSE [triggered |-> FALSE, reason |-> "daily pnl"]

\* Python's None, for an optional float
None == << >>

RMin(x, y) == IF RLt(y, x) THEN y ELSE x
RAbs(x) == IF RLt(x, Zero) THEN RNeg(x) ELSE x

\* (a variant without the cap of the factor at 1)
VolatilityScaleUncapped(price, atr) ==
    RMin(RDiv(price, RMul(atr, R(20))), Norm(3, 2))

\* The factor a positive ATR scales the base fraction by.
VolatilityScale(price, atr) ==
    RMin(RMin(RDiv(price, RMul(atr, R(20))), Norm(3, 2)), R(1))

\* RiskManager.calculate_position_size: the suggested quantity
calculate_position_size(lim, portfolio_value, price, signal_strength, atr) ==
    IF RLe(portfolio_value, Zero) \/ RLe(price, Zero) THEN 0
    ELSE LET base == RMul(RAbs(signal_strength), lim.max_position_pct)
             base_pct == IF atr # None /\ RGt(atr, Zero)
                         THEN RMul(base, VolatilityScale(price, atr))
                         ELSE base
             position_value == RMul(portfolio_value, base_pct)
             quantity == IntTrunc(RDiv(position_value, price))
         IN  IF quantity > 0 THEN quantity ELSE 0

\* RiskManager.update_peak_equity: the peak it leaves
update_peak_equity(peak, equity) == NewPeak(peak, equity)

\* The running maximum of the first n values of a series
\* (equity_curve.expanding().max()).
RECURSIVE ExpandingMax(_, _)
ExpandingMax(series, n) ==
    IF n = 1 THEN series[1]
    ELSE LET m == ExpandingMax(series, n - 1)
         IN  IF RGt(series[n], m) THEN series[n] ELSE m

\* (a variant measuring the decline from the first value of the series)
DrawdownAtFromFirst(series, n) ==
    RDiv(RSub(series[1], series[n]), series[1])

\* (peak - equity) / peak at position n of the series
DrawdownAt(series, n) ==
    RDiv(RSub(ExpandingMax(series, n), series[n]), ExpandingMax(series, n))

\* The largest of the first n drawdowns (drawdown.max()).
RECURSIVE MaxDrawdownUpTo(_, _)
MaxDrawdownUpTo(series, n) ==
    IF n = 1 THEN DrawdownAt(series, 1)
    ELSE LET m == MaxDrawdownUpTo(series, n - 1)
             d == DrawdownAt(series, n)
         IN  IF RGt(d, m) THEN d ELSE m

\* RiskManager.calculate_max_drawdown over a series of positive equities
calculate_max_drawdown(equity_curve) ==
    IF Len(equity_curve) = 0 THEN Zero
    ELSE MaxDrawdownUpTo(equity_curve, Len(equity_curve))

----------------------------------------------------------------------------
(* OrderExecutor                                                           *)

Order(symbol, side, quantity, price, date) ==
    [symbol |-> symbol, side |-> side, quantity |-> quantity, price |-> price,
     status |-> "PENDING", filled_quantity |-> 0, filled_price |-> Zero,
     commission |-> Zero, reject_reason |-> "", date |-> date]

\* (a variant applying the buy's slippage to both sides)
FillPriceAlwaysUp(side, price, slip) == Round2(RMul(price, RAdd(R(1), slip)))

\* The slippage-adjusted fill price of an order, rounded to cents.
FillPrice(side, price, slip) ==
    Round2(IF side = "BUY" THEN RMul(price, RAdd(R(1), slip))
                           ELSE RMul(price, RSub(R(1), slip)))

\* The commission of quantity units at filled_price, rounded to cents.
CommissionOf(quantity, filled_price, rate) ==
    Round2(RMul(RMul(R(quantity), filled_price), rate))

\* (a variant that skips only the rejected orders)
AlreadyTerminalRejectedOnly(order) == order.status = "REJECTED"

\* The guard of execute_order: only a PENDING order is executed.
AlreadyTerminal(order) == order.status # "PENDING"

\* (a variant with the two outcomes exchanged)
StatusAfterInverted(success) == IF success THEN "REJECTED" ELSE "FILLED"

\* The status execute_order gives the order once Portfolio.buy/sell returned.
StatusAfter(success) == IF success THEN "FILLED" ELSE "REJECTED"

\* (a variant that checks the orders of both sides)
RiskCheckedAnySide(rm, side) == rm

\* The risk checks are run when a risk manager is given and the order buys.
RiskChecked(rm, side) == rm /\ side = "BUY"

\* (a variant that never shrinks the order)
AdjustedOrderQuantityKept(size, quantity) == quantity

\* The quantity of the order after an allowing position-size check.
AdjustedOrderQuantity(size, quantity) ==
    IF size.allowed /\ size.quantity < quantity THEN size.quantity ELSE quantity

\* (a variant that values the quantity the order was created with)
ProposedTradeValueRequested(requested, quantity, filled_price) ==
    RMul(R(requested), filled_price)

\* The trade value given to check_total_exposure: order.quantity, which by
\* then is the adjusted quantity, at the fill price.
ProposedTradeValue(requested, quantity, filled_price) ==
    RMul(R(quantity), filled_price)

\* (a variant that reports the quantity the order was created with)
FilledQuantityRequested(requested, quantity) == requested

\* order.filled_quantity of a FILLED order: order.quantity, which by then is
\* the adjusted quantity.
FilledQuantity(requested, quantity) == quantity

\* OrderExecutor.execute_order on `order` against the Portfolio
\* (c, poss, hist, rpnl), with the risk manager `lim` when rm holds: the
\* order as it is left and the Portfolio as it is left.
ExecuteResult(order, c, poss, hist, rpnl, rm, lim, rate, slip) ==
    LET same == [ok |-> FALSE, cash |-> c, positions |-> poss,
                 trade_history |-> hist, realized_pnl |-> rpnl]
    IN  IF AlreadyTerminal(order) THEN [order |-> order, portfolio |-> same]
        ELSE
        LET filled_price == FillPrice(order.side, order.price, slip)
            commission == CommissionOf(order.quantity, filled_price, rate)
            checked == RiskChecked(rm, order.side)
            current_position_value ==
                IF order.symbol \in DOMAIN poss
                THEN market_value(poss[order.symbol]) ELSE Zero
            size == check_position_size(lim, order.symbol, order.quantity,
                        filled_price, EquityOf(c, poss), current_position_value)
            quantity == IF checked
                        THEN AdjustedOrderQuantity(size, order.quantity)
                        ELSE order.quantity
            exposure == check_total_exposure(lim, ValueOfPositions(poss),
                            ProposedTradeValue(order.quantity, quantity,
                                               filled_price),
                            EquityOf(c, poss))
        IN  IF checked /\ ~size.allowed
            THEN [order |-> [order EXCEPT !.status = "REJECTED",
                                          !.reject_reason = size.reason],
                  portfolio |-> same]
            ELSE IF checked /\ ~exposure.allowed
            THEN [order |-> [order EXCEPT !.quantity = quantity,
                                          !.status = "REJECTED",
                                          !.reject_reason = exposure.reason],
                  portfolio |-> same]
            ELSE
            LET r == IF order.side = "BUY"
                     THEN BuyResult(c, poss, hist, rpnl, order.symbol, quantity,
                                    filled_price, commission, order.date)
                     ELSE SellResult(c, poss, hist, rpnl, order.symbol, quantity,
                                     filled_price, commission, order.date)
                o == [order EXCEPT !.quantity = quantity,
                                   !.filled_price = filled_price,
                                   !.commission = commission]
            IN  [order |->
                     IF r.ok
                     THEN [o EXCEPT !.status = StatusAfter(r.ok),
                                    !.filled_quantity =
                                        FilledQuantity(order.quantity, quantity)]
                     ELSE [o EXCEPT !.status = StatusAfter(r.ok),
                                    !.reject_reason = "execution failed"],
                 portfolio |-> r]

\* The (quantity, reference price) pairs orders are created with.
OrderShapes == {<<100, R(12)>>, <<100, R(100)>>, <<5000, R(100)>>}
Sides == {"BUY", "SELL"}

\* OrderExecutor.create_order(symbol, side, quantity, price)
CreateOrder ==
    /\ Len(order_history) < MaxOrders
    /\ \E symbol \in Symbols, side \in Sides, shape \in OrderShapes :
          /\ order_history' =
                 Append(order_history,
                        Order(symbol, side, shape[1], shape[2], ""))
          /\ call' = Call("create_order", symbol, shape[1], shape[2], Zero,
                          Len(order_history) + 1, FALSE)
    /\ ret' = TRUE
    /\ pre' = Snapshot
    /\ UNCHANGED <<pvars, commission_rate, slippage, rvars, bvars>>

\* OrderExecutor.execute_order(order, portfolio, risk_manager), the order
\* being order_history[i] and risk_manager being None unless rm.
ExecuteOrder ==
    /\ \E i \in 1..Len(order_history), rm \in BOOLEAN :
          LET x == ExecuteResult(order_history[i], cash, positions,
                       trade_history, realized_pnl, rm, limits,
                       commission_rate, slippage)
          IN  /\ Apply(x.portfolio)
              /\ order_history' = [order_history EXCEPT ![i] = x.order]
              /\ call' = Call("execute_order", x.order.symbol, 0, Zero, Zero,
                              i, rm)
    /\ ret' = TRUE
    /\ pre' = Snapshot
    /\ UNCHANGED <<initial_capital, commission_rate, slippage, rvars, bvars>>

----------------------------------------------------------------------------
(* Portfolio() and the unused executor of the Portfolio specification.     *)

NothingSeen == [equities |-> {}, tripped |-> FALSE]

\* No run of a Backtester has been started.
NoBacktest ==
    [pc |-> "idle", signal_threshold |-> Zero, strategies |-> << >>,
     symbols |-> << >>, data |-> << >>, day |-> 0, position_high |-> << >>,
     last_trade_date |-> << >>, fills |-> << >>, results |-> << >>]

\* RiskLimits(): the defaults of the dataclass
DefaultLimits ==
    RiskLimits(Norm(25, 100), Norm(7, 10), Norm(7, 100), Norm(10, 100),
               Norm(20, 100), Norm(3, 100))
\* RiskLimits(max_position_pct=0.3, max_total_position_pct=0.8)
TestLimits ==
    RiskLimits(Norm(3, 10), Norm(8, 10), Norm(7, 100), Norm(10, 100),
               Norm(20, 100), Norm(3, 100))

NoSnapshot ==
    [cash |-> Zero, positions |-> << >>, trade_history |-> << >>,
     realized_pnl |-> Zero, order_history |-> << >>, peak_equity |-> Zero,
     seen |-> NothingSeen, position_high |-> << >>,
     last_trade_date |-> << >>]

InitPortfolio ==
    /\ initial_capital \in Capitals
    /\ cash = initial_capital
    /\ positions = << >>
    /\ trade_history = << >>
    /\ realized_pnl = Zero

Init ==
    /\ InitPortfolio
    /\ commission_rate = Norm(1, 1000)
    /\ slippage = Norm(1, 1000)
    /\ order_history = << >>
    /\ limits = DefaultLimits
    /\ peak_equity = Zero
    /\ seen = NothingSeen
    /\ backtester = NoBacktest
    /\ equity_history = << >>
    /\ call = Call("init", "", 0, Zero, Zero, 0, FALSE)
    /\ ret = TRUE
    /\ pre = NoSnapshot

Next == Buy \/ Sell \/ UpdatePrices

Spec == Init /\ [][Next]_vars

----------------------------------------------------------------------------
(* Properties of the Portfolio, checked under Spec.                        *)

IsCall(op) == call.op = op

PortfolioUnchanged ==
    /\ cash = pre.cash
    /\ positions = pre.positions
    /\ trade_history = pre.trade_history
    /\ realized_pnl = pre.realized_pnl

Held(poss, symbol) ==
    IF symbol \in DOMAIN poss THEN poss[symbol].quantity ELSE 0

LastTrade == trade_history[Len(trade_history)]

OneTradeAppended ==
    /\ Len(trade_history) = Len(pre.trade_history) + 1
    /\ SubSeq(trade_history, 1, Len(pre.trade_history)) = pre.trade_history

\* The sum over the held symbols of quantity * current marked price.
RECURSIVE MarkedValue(_)
MarkedValue(syms) ==
    IF syms = {} THEN Zero
    ELSE LET s == CHOOSE x \in syms : TRUE
         IN  RAdd(RMul(R(positions[s].quantity), positions[s].current_price),
                  MarkedValue(syms \ {s}))

\* C1: after any sequence of buy, sell and update_prices calls, successful
\* or failed, total_equity is cash plus the sum over the held positions of
\* quantity * current marked price.
C1_TotalEquity == total_equity = RAdd(cash, MarkedValue(DOMAIN positions))

\* Two positions are held, one marked away from its cost by update_prices.
C1_Witness ==
    /\ IsCall("update_prices")
    /\ Cardinality(DOMAIN positions) = 2
    /\ \E s \in DOMAIN positions :
          positions[s].current_price # positions[s].avg_price

\* C2: cash is never negative, whatever the positive prices and the
\* non-negative commissions of the buys and sells.
C2_CashNeverNegative == RGe(cash, Zero)

\* C3: buy returns false and changes nothing when quantity <= 0 or
\* quantity * price + commission > cash; otherwise it returns true, debits
\* cash by exactly quantity * price + commission and appends exactly one
\* buy trade record.
C3_Buy ==
    IsCall("buy") =>
        LET cost == RAdd(RMul(R(call.quantity), call.price), call.commission)
        IN  IF call.quantity <= 0 \/ RGt(cost, pre.cash)
            THEN ret = FALSE /\ PortfolioUnchanged
            ELSE /\ ret = TRUE
                 /\ cash = RSub(pre.cash, cost)
                 /\ OneTradeAppended
                 /\ LastTrade.side = "buy"
                 /\ LastTrade.symbol = call.symbol
                 /\ LastTrade.quantity = call.quantity
                 /\ LastTrade.price = call.price
                 /\ LastTrade.commission = call.commission

\* A buy of a positive quantity refused for want of cash, a position being
\* held.
C3_Witness ==
    /\ IsCall("buy")
    /\ ret = FALSE
    /\ call.quantity > 0
    /\ DOMAIN pre.positions # {}

\* C4: sell returns false and changes nothing when the instrument has no
\* position, quantity <= 0, or quantity exceeds the held quantity.
C4_SellFails ==
    (/\ IsCall("sell")
     /\ \/ call.symbol \notin DOMAIN pre.positions
        \/ call.quantity <= 0
        \/ call.quantity > Held(pre.positions, call.symbol))
    => (ret = FALSE /\ PortfolioUnchanged)

\* A sell of more units than the position holds.
C4_Witness ==
    /\ IsCall("sell")
    /\ ret = FALSE
    /\ call.symbol \in DOMAIN pre.positions
    /\ call.quantity > pre.positions[call.symbol].quantity

\* C5: a successful sell of q at p with commission c against average price a
\* records a trade with P&L (p - a) * q - c, adds it to the realized P&L,
\* credits cash by q * p - c and leaves the average price of what remains.
C5_Sell ==
    (IsCall("sell") /\ ret = TRUE) =>
        LET a == pre.positions[call.symbol].avg_price
            pnl == RSub(RMul(RSub(call.price, a), R(call.quantity)),
                        call.commission)
        IN  /\ OneTradeAppended
            /\ LastTrade.side = "sell"
            /\ LastTrade.pnl = pnl
            /\ realized_pnl = RAdd(pre.realized_pnl, pnl)
            /\ cash = RAdd(pre.cash, RSub(RMul(R(call.quantity), call.price),
                                          call.commission))
            /\ call.symbol \in DOMAIN positions =>
                   positions[call.symbol].avg_price = a

\* A partial sell with a commission, at a price other than the average.
C5_Witness ==
    /\ IsCall("sell")
    /\ ret = TRUE
    /\ call.symbol \in DOMAIN positions
    /\ call.commission # Zero
    /\ call.price # positions[call.symbol].avg_price

\* The cost (quantity * price, commissions excluded) of the buys of symbol
\* in the first n trades, scaled at each sell for the units still held, and
\* the units held after them.
RECURSIVE CostHeld(_, _, _)
CostHeld(hist, n, symbol) ==
    IF n = 0 THEN [units |-> 0, cost |-> Zero]
    ELSE LET before == CostHeld(hist, n - 1, symbol)
             t == hist[n]
         IN  IF t.symbol # symbol THEN before
             ELSE IF t.side = "buy"
             THEN [units |-> before.units + t.quantity,
                   cost |-> RAdd(before.cost, RMul(R(t.quantity), t.price))]
             ELSE [units |-> before.units - t.quantity,
                   cost |-> RDiv(RMul(before.cost,
                                      R(before.units - t.quantity)),
                                 R(before.units))]

\* C6: a successful buy into an existing position makes the average price
\* the quantity-weighted mean of the old average and the fill price, so
\* that quantity * average price is the summed cost of the buys scaled for
\* the units still held; 100 @ 10 then 100 @ 12 gives 200 @ 11.
C6_AveragePrice ==
    /\ \A s \in DOMAIN positions :
          LET h == CostHeld(trade_history, Len(trade_history), s)
          IN  /\ positions[s].quantity = h.units
              /\ RMul(R(positions[s].quantity), positions[s].avg_price) = h.cost
    /\ (IsCall("buy") /\ ret = TRUE /\ call.symbol \in DOMAIN pre.positions) =>
          LET old == pre.positions[call.symbol]
              new == positions[call.symbol]
          IN  /\ new.quantity = old.quantity + call.quantity
              /\ RMul(R(new.quantity), new.avg_price) =
                     RAdd(RMul(R(old.quantity), old.avg_price),
                          RMul(R(call.quantity), call.price))
              /\ (/\ old.quantity = 100 /\ old.avg_price = R(10)
                  /\ call.quantity = 100 /\ call.price = R(12))
                 => (new.quantity = 200 /\ new.avg_price = R(11))

\* 100 @ 10 then 100 @ 12 of the same instrument.
C6_Witness ==
    /\ IsCall("buy")
    /\ ret = TRUE
    /\ call.symbol \in DOMAIN pre.positions
    /\ pre.positions[call.symbol].quantity = 100
    /\ pre.positions[call.symbol].avg_price = R(10)
    /\ call.quantity = 100
    /\ call.price = R(12)

\* C7: every entry of the positions mapping has quantity > 0; the first
\* successful buy creates the entry and the sell that brings the quantity
\* to zero removes it.
C7_PositiveQuantities ==
    /\ \A s \in DOMAIN positions : positions[s].quantity > 0
    /\ (IsCall("buy") /\ ret = TRUE) => call.symbol \in DOMAIN positions
    /\ (IsCall("sell") /\ ret = TRUE) =>
          (call.symbol \in DOMAIN positions
              <=> call.quantity < pre.positions[call.symbol].quantity)

\* A sell of the whole position, after which the entry is gone.
C7_Witness ==
    /\ IsCall("sell")
    /\ ret = TRUE
    /\ call.quantity = pre.positions[call.symbol].quantity
    /\ call.symbol \notin DOMAIN positions

----------------------------------------------------------------------------
(* An OrderExecutor and a RiskManager driving a Portfolio.                 *)

ExecCapitals == {R(1000000)}
\* (commission_rate, slippage) of the executors
ExecutorConfigs == {<<Norm(1, 1000), Norm(1, 1000)>>, <<Norm(2, 1000), Zero>>}

InitExec ==
    /\ initial_capital \in ExecCapitals
    /\ cash = initial_capital
    /\ positions = << >>
    /\ trade_history = << >>
    /\ realized_pnl = Zero
    /\ \E cfg \in ExecutorConfigs :
          commission_rate = cfg[1] /\ slippage = cfg[2]
    /\ order_history = << >>
    /\ limits = TestLimits
    /\ peak_equity = Zero
    /\ seen = NothingSeen
    /\ backtester = NoBacktest
    /\ equity_history = << >>
    /\ call = Call("init", "", 0, Zero, Zero, 0, FALSE)
    /\ ret = TRUE
    /\ pre = NoSnapshot

NextExec == CreateOrder \/ ExecuteOrder

SpecExec == InitExec /\ [][NextExec]_vars

\* The same executor on a small Portfolio, where one unit of an instrument
\* can exceed the position limit and a commission can exceed the cash.
SmallCapitals == {R(300), R(400)}

InitSmall ==
    /\ initial_capital \in SmallCapitals
    /\ cash = initial_capital
    /\ positions = << >>
    /\ trade_history = << >>
    /\ realized_pnl = Zero
    /\ commission_rate = Norm(1, 1000)
    /\ slippage = Norm(1, 1000)
    /\ order_history = << >>
    /\ limits = TestLimits
    /\ peak_equity = Zero
    /\ seen = NothingSeen
    /\ backtester = NoBacktest
    /\ equity_history = << >>
    /\ call = Call("init", "", 0, Zero, Zero, 0, FALSE)
    /\ ret = TRUE
    /\ pre = NoSnapshot

SpecSmall == InitSmall /\ [][NextExec]_vars

----------------------------------------------------------------------------
(* Properties of the OrderExecutor, checked under SpecExec.                *)

\* The largest k in 0..bound with k * price <= value, for value >= 0 and
\* price > 0: floor(value / price).
FloorDiv(value, price, bound) ==
    CHOOSE k \in 0..bound :
        /\ RLe(RMul(R(k), price), value)
        /\ RGt(RMul(R(k + 1), price), value)


OrderBefore == pre.order_history[call.order]
OrderAfter == order_history[call.order]
Executed == IsCall("execute_order") /\ OrderBefore.status = "PENDING"

\* C8: an order is created PENDING and execute_order moves it exactly once
\* to FILLED or REJECTED; execute_order on an order already terminal changes
\* neither the order nor the Portfolio.
C8_OrderLifecycle ==
    /\ IsCall("create_order") =>
          /\ OrderAfter.status = "PENDING"
          /\ OrderAfter.filled_quantity = 0
    /\ Executed => OrderAfter.status \in {"FILLED", "REJECTED"}
    /\ (IsCall("execute_order") /\ OrderBefore.status # "PENDING") =>
          /\ OrderAfter.status = OrderBefore.status
          /\ OrderAfter.quantity = OrderBefore.quantity
          /\ OrderAfter.filled_quantity = OrderBefore.filled_quantity
          /\ OrderAfter.filled_price = OrderBefore.filled_price
          /\ OrderAfter.commission = OrderBefore.commission
          /\ PortfolioUnchanged
    /\ \A i \in DOMAIN pre.order_history :
          pre.order_history[i].status # "PENDING" =>
              order_history[i].status = pre.order_history[i].status

\* execute_order called again on a FILLED buy order.
C8_Witness ==
    /\ IsCall("execute_order")
    /\ OrderBefore.status = "FILLED"
    /\ OrderBefore.side = "BUY"

\* C9: when execute_order ends REJECTED, by a risk check or because
\* Portfolio.buy/sell failed, the Portfolio is what it was before the call;
\* a SELL order for an instrument with no position is REJECTED.
C9_RejectedNoMutation ==
    Executed =>
        /\ OrderAfter.status = "REJECTED" => PortfolioUnchanged
        /\ (/\ OrderBefore.side = "SELL"
            /\ OrderBefore.symbol \notin DOMAIN pre.positions)
           => OrderAfter.status = "REJECTED"

\* A buy rejected by the total-exposure check while a position is held.
C9_Witness ==
    /\ Executed
    /\ call.rm
    /\ OrderAfter.status = "REJECTED"
    /\ OrderAfter.reject_reason = "total exposure over limit"
    /\ DOMAIN pre.positions # {}

\* x is a whole number of cents.
IsCents(x) == 100 % x[2] = 0

\* C10: a FILLED buy fills at reference price * (1 + slippage), a FILLED
\* sell at reference price * (1 - slippage), rounded to cents, and cash
\* changes by filled_quantity * filled_price plus (buy) or minus (sell) the
\* commission; with capital 1,000,000, rate 0.001 and slippage 0.001 a BUY
\* of 100 at 100.0 fills at 100.10 with commission 10.01 and leaves cash
\* 989,979.99.
C10_Fill ==
    (Executed /\ OrderAfter.status = "FILLED") =>
        LET exact == IF OrderBefore.side = "BUY"
                     THEN RMul(OrderBefore.price, RAdd(R(1), slippage))
                     ELSE RMul(OrderBefore.price, RSub(R(1), slippage))
            fp == OrderAfter.filled_price
            value == RMul(R(OrderAfter.filled_quantity), fp)
        IN  /\ IsCents(fp)
            /\ RLe(RSub(fp, exact), Norm(1, 200))
            /\ RLe(RSub(exact, fp), Norm(1, 200))
            /\ cash = IF OrderBefore.side = "BUY"
                      THEN RSub(pre.cash, RAdd(value, OrderAfter.commission))
                      ELSE RAdd(pre.cash, RSub(value, OrderAfter.commission))
            /\ (/\ pre.cash = R(1000000)
                /\ commission_rate = Norm(1, 1000)
                /\ slippage = Norm(1, 1000)
                /\ OrderBefore.side = "BUY"
                /\ OrderBefore.quantity = 100
                /\ OrderBefore.price = R(100))
               => /\ fp = Norm(10010, 100)
                  /\ OrderAfter.commission = Norm(1001, 100)
                  /\ cash = Norm(98997999, 100)

\* The BUY of 100 at 100.0 on a fresh Portfolio of 1,000,000.
C10_Witness ==
    /\ Executed
    /\ OrderAfter.status = "FILLED"
    /\ pre.cash = R(1000000)
    /\ commission_rate = Norm(1, 1000)
    /\ slippage = Norm(1, 1000)
    /\ OrderBefore.side = "BUY"
    /\ OrderBefore.quantity = 100
    /\ OrderBefore.price = R(100)

\* A BUY executed with the risk manager on a Portfolio holding nothing, the
\* requested value at the fill price exceeding max_position_pct of equity.
OversizedBuy ==
    /\ Executed
    /\ call.rm
    /\ OrderBefore.side = "BUY"
    /\ DOMAIN pre.positions = {}
    /\ RGt(RMul(R(OrderBefore.quantity),
                FillPrice("BUY", OrderBefore.price, slippage)),
           RMul(limits.max_position_pct, pre.cash))

\* What an oversized BUY is clipped to: floor(limit * equity / fill price).
ClippedTo ==
    FloorDiv(RMul(limits.max_position_pct, pre.cash),
             FillPrice("BUY", OrderBefore.price, slippage),
             OrderBefore.quantity)

\* The filled quantity is below the requested one and its value is within
\* max_position_pct of the equity before the fill.
FilledClipped ==
    /\ OrderAfter.status = "FILLED"
    /\ OrderAfter.filled_quantity < OrderBefore.quantity
    /\ RLe(RMul(R(OrderAfter.filled_quantity), OrderAfter.filled_price),
           RMul(limits.max_position_pct, pre.cash))

\* C12 as stated: with a risk manager and no exposure, every BUY whose
\* requested value exceeds max_position_pct of total equity ends FILLED, with
\* filled_quantity below the requested quantity and filled_quantity *
\* filled_price <= max_position_pct * the equity before the fill.
C12_AsStated == OversizedBuy => FilledClipped

\* C12 (amended): such a BUY ends FILLED, clipped as above to
\* k = floor(max_position_pct * equity / fill price), exactly when k >= 1,
\* k * fill price is within max_total_position_pct of equity, and the cash
\* covers k * fill price plus the commission of the order, which is computed
\* on the requested quantity; otherwise it ends REJECTED and the Portfolio is
\* unchanged.
C12_ClippedBuy ==
    OversizedBuy =>
        LET fp == FillPrice("BUY", OrderBefore.price, slippage)
            value == RMul(R(ClippedTo), fp)
            fits ==
                /\ ClippedTo >= 1
                /\ RLe(value, RMul(limits.max_total_position_pct, pre.cash))
                /\ RLe(RAdd(value, CommissionOf(OrderBefore.quantity, fp,
                                                commission_rate)),
                       pre.cash)
        IN  IF fits
            THEN FilledClipped /\ OrderAfter.filled_quantity = ClippedTo
            ELSE OrderAfter.status = "REJECTED" /\ PortfolioUnchanged

\* An oversized BUY filled with a smaller quantity.
C12_Witness == OversizedBuy /\ FilledClipped /\ OrderAfter.filled_quantity >= 1

\* C13: a SELL order is never subjected to the position-size and
\* total-exposure checks: for a positive quantity not above the held
\* quantity it ends FILLED, with or without a risk manager, and the risk
\* manager makes no difference to what execute_order does with a SELL.
C13_SellUnchecked ==
    (Executed /\ OrderBefore.side = "SELL") =>
        /\ (/\ OrderBefore.symbol \in DOMAIN pre.positions
            /\ OrderBefore.quantity > 0
            /\ OrderBefore.quantity
                   <= pre.positions[OrderBefore.symbol].quantity)
           => /\ OrderAfter.status = "FILLED"
              /\ OrderAfter.filled_quantity = OrderBefore.quantity
        /\ \A rm \in BOOLEAN :
              ExecuteResult(OrderBefore, pre.cash, pre.positions,
                            pre.trade_history, pre.realized_pnl, rm, limits,
                            commission_rate, slippage).order = OrderAfter

\* A SELL filled under the risk manager although the position it sells from
\* is at the position limit.
C13_Witness ==
    /\ Executed
    /\ call.rm
    /\ OrderBefore.side = "SELL"
    /\ OrderAfter.status = "FILLED"
    /\ RGt(RAdd(market_value(pre.positions[OrderBefore.symbol]),
                RMul(R(OrderBefore.quantity), OrderAfter.filled_price)),
           RMul(limits.max_position_pct, EquityOf(pre.cash, pre.positions)))

----------------------------------------------------------------------------
(* A RiskManager called directly.                                          *)

\* RiskLimits(0.3, 0.8, 0.05, 0.15, 0.15, 0.03)
RiskTestLimits ==
    RiskLimits(Norm(3, 10), Norm(8, 10), Norm(5, 100), Norm(15, 100),
               Norm(15, 100), Norm(3, 100))

\* The arguments the checks are called with.
ProposedQuantities == {0, 100, 5000}
RiskPrices == {R(7), R(10)}
PortfolioValues == {Zero, R(100000)}
PositionValues == {Zero, R(20000), R(29995), R(30000)}
EntryPrices == {R(-100), Zero, R(100)}
CurrentPrices == {R(94), R(95), R(96), R(110), R(115)}
Equities == {Zero, R(85000), R(100000), R(110000)}
Strengths == {Norm(-1, 2), Zero, R(1), R(2)}
SizingPrices == {Zero, R(7), R(10)}
Atrs == {None, Zero, Norm(1, 4), R(2)}

RiskCall(op, args) == [op |-> op, args |-> args]

InitRisk ==
    /\ initial_capital = R(100000)
    /\ cash = initial_capital
    /\ positions = << >>
    /\ trade_history = << >>
    /\ realized_pnl = Zero
    /\ commission_rate = Norm(1, 1000)
    /\ slippage = Norm(1, 1000)
    /\ order_history = << >>
    /\ limits \in {DefaultLimits, RiskTestLimits}
    /\ peak_equity = Zero
    /\ seen = NothingSeen
    /\ backtester = NoBacktest
    /\ equity_history = << >>
    /\ call = RiskCall("init", << >>)
    /\ ret = TRUE
    /\ pre = NoSnapshot

CheckPositionSizeWith(quantities, prices, values, held) ==
    /\ \E q \in quantities, price \in prices, pv \in values, cpv \in held :
          /\ call' = RiskCall("check_position_size",
                     [proposed_quantity |-> q, price |-> price,
                      current_portfolio_value |-> pv,
                      current_position_value |-> cpv])
          /\ ret' = check_position_size(limits, "test", q, price, pv, cpv)
    /\ pre' = Snapshot
    /\ UNCHANGED <<pvars, evars, rvars, bvars>>

CheckPositionSize ==
    CheckPositionSizeWith(ProposedQuantities, RiskPrices, PortfolioValues,
                          PositionValues)

CheckTotalExposureWith(held, quantities, values) ==
    /\ \E tv \in held, q \in quantities, pv \in values :
          /\ call' = RiskCall("check_total_exposure",
                     [total_position_value |-> tv,
                      proposed_trade_value |-> RMul(R(q), R(10)),
                      portfolio_value |-> pv])
          /\ ret' = check_total_exposure(limits, tv, RMul(R(q), R(10)), pv)
    /\ pre' = Snapshot
    /\ UNCHANGED <<pvars, evars, rvars, bvars>>

CheckTotalExposure ==
    CheckTotalExposureWith(PositionValues, ProposedQuantities, PortfolioValues)

CheckStopLossWith(entries, currents) ==
    /\ \E entry \in entries, current \in currents :
          /\ call' = RiskCall("check_stop_loss",
                     [entry_price |-> entry, current_price |-> current])
          /\ ret' = check_stop_loss(limits, entry, current)
    /\ pre' = Snapshot
    /\ UNCHANGED <<pvars, evars, rvars, bvars>>

CheckStopLoss == CheckStopLossWith(EntryPrices, CurrentPrices)

CheckTakeProfitWith(entries, currents) ==
    /\ \E entry \in entries, current \in currents :
          /\ call' = RiskCall("check_take_profit",
                     [entry_price |-> entry, current_price |-> current])
          /\ ret' = check_take_profit(limits, entry, current)
    /\ pre' = Snapshot
    /\ UNCHANGED <<pvars, evars, rvars, bvars>>

CheckTakeProfit == CheckTakeProfitWith(EntryPrices, CurrentPrices)

\* check_trailing_stop with its default percentages and with others.
TrailingCurrents == {R(94), Norm(9785, 100), R(98), Norm(1045, 10), R(105), R(110)}
HighestPrices == {R(-5), Zero, R(102), R(103), R(110)}
TrailingPcts == {<<DefaultTrailingPct, DefaultActivationPct>>, <<Norm(1, 10), Norm(1, 10)>>}

CheckTrailingStop ==
    /\ \E entry \in EntryPrices, current \in TrailingCurrents,
          highest \in HighestPrices, pcts \in TrailingPcts :
          /\ call' = RiskCall("check_trailing_stop",
                     [entry_price |-> entry, current_price |-> current,
                      highest_price |-> highest, trailing_pct |-> pcts[1],
                      activation_pct |-> pcts[2]])
          /\ ret' = check_trailing_stop(entry, current, highest,
                                        pcts[1], pcts[2])
    /\ pre' = Snapshot
    /\ UNCHANGED <<pvars, evars, rvars, bvars>>

CheckDailyLossWith(equities) ==
    /\ \E current \in equities, start \in equities :
          /\ call' = RiskCall("check_daily_loss",
                     [current_equity |-> current, start_equity |-> start])
          /\ ret' = check_daily_loss(limits, current, start)
    /\ pre' = Snapshot
    /\ UNCHANGED <<pvars, evars, rvars, bvars>>

CheckDailyLoss == CheckDailyLossWith(Equities)

CalculatePositionSizeWith(values, prices, strengths, atrs) ==
    /\ \E pv \in values, price \in prices, strength \in strengths, atr \in atrs :
          /\ call' = RiskCall("calculate_position_size",
                     [portfolio_value |-> pv, price |-> price,
                      signal_strength |-> strength, atr |-> atr])
          /\ ret' = calculate_position_size(limits, pv, price, strength, atr)
    /\ pre' = Snapshot
    /\ UNCHANGED <<pvars, evars, rvars, bvars>>

CalculatePositionSize ==
    CalculatePositionSizeWith(PortfolioValues, SizingPrices, Strengths, Atrs)

\* RiskManager.check_max_drawdown(current_equity)
CheckMaxDrawdown ==
    /\ \E e \in Equities :
          LET r == check_max_drawdown(limits, peak_equity, e)
          IN  /\ peak_equity' = r.peak
              /\ ret' = [triggered |-> r.triggered, reason |-> r.reason]
              /\ seen' = [equities |-> seen.equities \cup {e},
                          tripped |-> seen.tripped \/ r.triggered]
              /\ call' = RiskCall("check_max_drawdown", [current_equity |-> e])
    /\ pre' = Snapshot
    /\ UNCHANGED <<pvars, evars, limits, bvars>>

\* RiskManager.update_peak_equity(equity)
UpdatePeakEquity ==
    /\ \E e \in Equities :
          /\ peak_equity' = update_peak_equity(peak_equity, e)
          /\ seen' = [seen EXCEPT !.equities = @ \cup {e}]
          /\ call' = RiskCall("update_peak_equity", [equity |-> e])
    /\ ret' = TRUE
    /\ pre' = Snapshot
    /\ UNCHANGED <<pvars, evars, limits, bvars>>

\* RiskManager.reset()
Reset ==
    /\ peak_equity' = Zero
    /\ seen' = NothingSeen
    /\ call' = RiskCall("reset", << >>)
    /\ ret' = TRUE
    /\ pre' = Snapshot
    /\ UNCHANGED <<pvars, evars, limits, bvars>>

\* The equity series calculate_max_drawdown is applied to: every series of
\* at most MaxSeriesLen values, and the series of the test.
MaxSeriesLen == 3
SeriesValues == {R(90), R(100), R(120)}
ExampleSeries == <<R(100), R(110), R(120), R(100), R(90), R(95)>>
EquitySeries ==
    UNION {[1..n -> SeriesValues] : n \in 0..MaxSeriesLen} \cup {ExampleSeries}

CalculateMaxDrawdown ==
    /\ \E series \in EquitySeries :
          /\ call' = RiskCall("calculate_max_drawdown", [equity_curve |-> series])
          /\ ret' = calculate_max_drawdown(series)
    /\ pre' = Snapshot
    /\ UNCHANGED <<pvars, evars, rvars, bvars>>

\* The functions of the RiskManager that read its limits only.
NextRisk ==
    \/ CheckPositionSize
    \/ CheckTotalExposure
    \/ CheckStopLoss
    \/ CheckTakeProfit
    \/ CheckTrailingStop
    \/ CheckDailyLoss
    \/ CalculatePositionSize
    \/ CalculateMaxDrawdown

SpecRisk == InitRisk /\ [][NextRisk]_vars

\* The peak-equity watermark under any interleaving of the calls.
NextPeak ==
    \/ CheckMaxDrawdown
    \/ UpdatePeakEquity
    \/ Reset
    \/ CheckPositionSizeWith({5000}, {R(10)}, {R(100000)}, {Zero})
    \/ CheckTotalExposureWith({Zero}, {100}, {R(100000)})
    \/ CheckStopLossWith({R(100)}, {R(94)})
    \/ CheckTakeProfitWith({R(100)}, {R(115)})
    \/ CheckDailyLossWith({R(85000), R(100000)})
    \/ CalculatePositionSizeWith({R(100000)}, {R(10)}, {R(1)}, {None})

SpecPeak == InitRisk /\ [][NextPeak]_vars

----------------------------------------------------------------------------
(* Properties of the RiskManager, checked under SpecRisk and SpecPeak.     *)

\* The arguments of a check_position_size call, as the claim reads them.
SizeWithin ==
    RLe(RAdd(call.args.current_position_value,
             RMul(R(call.args.proposed_quantity), call.args.price)),
        RMul(limits.max_position_pct, call.args.current_portfolio_value))
SizeHeadroom ==
    RSub(RMul(limits.max_position_pct, call.args.current_portfolio_value),
         call.args.current_position_value)
SizeFloor == FloorDiv(SizeHeadroom, call.args.price, call.args.proposed_quantity)

\* C11 as stated: for portfolio_value > 0, check_position_size allows the
\* proposed quantity unchanged when the resulting fraction is within
\* max_position_pct; when it is exceeded and the headroom max_value is
\* positive it allows floor(max_value / price); with no headroom, or with
\* portfolio_value <= 0, it disallows with quantity 0.
C11_AsStated ==
    IsCall("check_position_size") =>
        IF RLe(call.args.current_portfolio_value, Zero)
        THEN ~ret.allowed /\ ret.quantity = 0
        ELSE /\ SizeWithin =>
                    ret.allowed /\ ret.quantity = call.args.proposed_quantity
             /\ (~SizeWithin /\ RGt(SizeHeadroom, Zero)) =>
                    ret.allowed /\ ret.quantity = SizeFloor
             /\ (~SizeWithin /\ RLe(SizeHeadroom, Zero)) =>
                    ~ret.allowed /\ ret.quantity = 0

\* C11 (amended): as above, but the clipped quantity floor(max_value / price)
\* is allowed only when it is at least 1; a positive headroom smaller than
\* the price of one unit is disallowed with quantity 0, like no headroom.
C11_PositionSize ==
    IsCall("check_position_size") =>
        IF RLe(call.args.current_portfolio_value, Zero)
        THEN ~ret.allowed /\ ret.quantity = 0
        ELSE /\ SizeWithin =>
                    ret.allowed /\ ret.quantity = call.args.proposed_quantity
             /\ (~SizeWithin /\ RGt(SizeHeadroom, Zero) /\ SizeFloor >= 1) =>
                    ret.allowed /\ ret.quantity = SizeFloor
             /\ (~SizeWithin /\ (RLe(SizeHeadroom, Zero) \/ SizeFloor = 0)) =>
                    ~ret.allowed /\ ret.quantity = 0

\* A proposed quantity clipped while part of the limit is already used.
C11_Witness ==
    /\ IsCall("check_position_size")
    /\ RGt(call.args.current_position_value, Zero)
    /\ ret.allowed
    /\ ret.quantity >= 1
    /\ ret.quantity < call.args.proposed_quantity

\* C14: check_stop_loss(entry, current) reports triggered exactly when
\* entry > 0 and (entry - current) / entry >= stop_loss_pct, the threshold
\* included: with stop_loss_pct 0.05, entry 100 and current 95 trigger,
\* current 96 does not; for entry <= 0 it never triggers.
C14_StopLoss ==
    IsCall("check_stop_loss") =>
        LET entry == call.args.entry_price
            current == call.args.current_price
        IN  /\ ret.triggered <=>
                  /\ RGt(entry, Zero)
                  /\ RLe(current,
                         RMul(entry, RSub(R(1), limits.stop_loss_pct)))
            /\ (limits.stop_loss_pct = Norm(5, 100) /\ entry = R(100)) =>
                  /\ current = R(95) => ret.triggered
                  /\ current = R(96) => ~ret.triggered

\* check_stop_loss(100, 95) triggering at the threshold of 5%.
C14_Witness ==
    /\ IsCall("check_stop_loss")
    /\ limits.stop_loss_pct = Norm(5, 100)
    /\ call.args.entry_price = R(100)
    /\ call.args.current_price = R(95)
    /\ ret.triggered

\* The largest of a set of equities, 0 for the empty set.
MaxSeen(equities) ==
    IF equities = {} THEN Zero
    ELSE CHOOSE m \in equities : \A e \in equities : RLe(e, m)

\* C15: once a check_max_drawdown call has reported triggered, a later call
\* check_max_drawdown(e) reports triggered exactly when
\* e <= peak * (1 - max_drawdown_pct), the peak being the largest equity
\* passed to check_max_drawdown or update_peak_equity since the last reset.
C15_Drawdown ==
    /\ peak_equity = MaxSeen(seen.equities)
    /\ (IsCall("check_max_drawdown") /\ pre.seen.tripped) =>
          (ret.triggered <=>
               RLe(call.args.current_equity,
                   RMul(MaxSeen(seen.equities),
                        RSub(R(1), limits.max_drawdown_pct))))

\* After a triggered check, a check with the peak still held and the equity
\* back above the level reports not triggered.
C15_Witness ==
    /\ IsCall("check_max_drawdown")
    /\ pre.seen.tripped
    /\ peak_equity = pre.peak_equity
    /\ RLt(call.args.current_equity, peak_equity)
    /\ ~ret.triggered

\* C16: the peak-equity watermark never decreases under check_max_drawdown,
\* update_peak_equity and the other checks and calculate_position_size; only
\* reset() lowers it, to 0, and the calls other than check_max_drawdown,
\* update_peak_equity and reset leave it as it is.
C16_PeakMonotonic ==
    [][/\ call'.op # "reset" => RGe(peak_equity', peak_equity)
       /\ call'.op = "reset" => peak_equity' = Zero
       /\ call'.op \notin {"check_max_drawdown", "update_peak_equity", "reset"}
              => peak_equity' = peak_equity]_vars

\* update_peak_equity called with an equity below the peak, which stays.
C16_Witness ==
    /\ IsCall("update_peak_equity")
    /\ RLt(call.args.equity, peak_equity)
    /\ peak_equity = pre.peak_equity

\* C17: calculate_position_size returns
\* floor(portfolio_value * |signal_strength| * max_position_pct / price)
\* when no ATR is given, 0 when portfolio_value <= 0 or price <= 0, never a
\* negative quantity, with a positive ATR never more than without it, and
\* for |signal_strength| <= 1 a quantity whose value at price is within
\* max_position_pct * portfolio_value.
C17_PositionSizing ==
    IsCall("calculate_position_size") =>
        LET pv == call.args.portfolio_value
            price == call.args.price
            strength == IF RLt(call.args.signal_strength, Zero)
                        THEN RNeg(call.args.signal_strength)
                        ELSE call.args.signal_strength
            atr == call.args.atr
            target == RMul(RMul(pv, strength), limits.max_position_pct)
        IN  /\ ret \in Nat
            /\ (RLe(pv, Zero) \/ RLe(price, Zero)) => ret = 0
            /\ (RGt(pv, Zero) /\ RGt(price, Zero)) =>
                  /\ RLe(RMul(R(ret), price), target)
                  /\ atr = None => RGt(RMul(R(ret + 1), price), target)
                  /\ RLe(strength, R(1)) =>
                        RLe(RMul(R(ret), price),
                            RMul(limits.max_position_pct, pv))

\* A positive ATR that makes the quantity smaller than without it.
C17_Witness ==
    /\ IsCall("calculate_position_size")
    /\ call.args.atr # None
    /\ ret > 0
    /\ RLe(RMul(R(ret + 1), call.args.price),
           RMul(RMul(call.args.portfolio_value, call.args.signal_strength),
                limits.max_position_pct))

\* C18: calculate_max_drawdown returns the largest (running peak - equity) /
\* running peak over the positions of the series, the largest relative
\* decline from an earlier value to a later one: 0 for a non-decreasing
\* series and for the empty series, and 0.25 for
\* [100, 110, 120, 100, 90, 95].
C18_MaxDrawdown ==
    IsCall("calculate_max_drawdown") =>
        LET series == call.args.equity_curve
            n == Len(series)
            Decline(i, j) == RDiv(RSub(series[i], series[j]), series[i])
        IN  /\ n = 0 => ret = Zero
            /\ n > 0 =>
                  /\ \A j \in 1..n : \A i \in 1..j : RLe(Decline(i, j), ret)
                  /\ \E j \in 1..n : \E i \in 1..j : ret = Decline(i, j)
            /\ (\A i \in 1..n : \A j \in i..n : RLe(series[i], series[j]))
                  => ret = Zero
            /\ series = ExampleSeries => ret = Norm(1, 4)

\* calculate_max_drawdown([100, 110, 120, 100, 90, 95]) returning 0.25.
C18_Witness ==
    /\ IsCall("calculate_max_drawdown")
    /\ call.args.equity_curve = ExampleSeries
    /\ ret = Norm(1, 4)



----------------------------------------------------------------------------
(* Backtester (backtest/backtester.py)                                     *)
(*                                                                         *)
(* A date is its index in all_dates, counted from 0.  The price data and   *)
(* the strategies' signals are held as one row per date:                   *)
(*   prices  : symbol -> close, for the symbols with a row on that date    *)
(*   signals : for each strategy, symbol -> the Signal it dates that day   *)

RMax(x, y) == IF RGt(x, y) THEN x ELSE y

\* Signal(...): __post_init__ clamps the strength to [-1, 1].
Signal(signal_type, strength) ==
    [signal_type |-> signal_type,
     strength |-> RMax(R(-1), RMin(R(1), strength))]
NoSignal == [signal_type |-> "NONE", strength |-> Zero]

\* BaseStrategy(name, weight)
Strategy(name, weight) == [name |-> name, weight |-> weight]

trade_cooldown == 10
lookback == 5

\* The element of a one-element set.  Only({F(v) : v \in {e}}) is F(e) with
\* e evaluated once, however often F reads it.
Only(S) == CHOOSE x \in S : TRUE

Put(f, k, v) == [x \in DOMAIN f \cup {k} |-> IF x = k THEN v ELSE f[x]]
Pop(f, ks) == [x \in DOMAIN f \ ks |-> f[x]]

\* The most recent signal of strategy k for symbol among the dates
\* date_idx, date_idx - 1, ..., from the d-th of them on.
RECURSIVE RecentSignal(_, _, _, _, _)
RecentSignal(data, date_idx, k, symbol, d) ==
    IF d >= lookback THEN NoSignal
    ELSE LET back == IF date_idx - d > 0 THEN date_idx - d ELSE 0
             sigs == data[back + 1].signals[k]
         IN  IF symbol \in DOMAIN sigs THEN sigs[symbol]
             ELSE RecentSignal(data, date_idx, k, symbol, d + 1)

\* (a variant that keeps the signals of each strategy apart)
SignalsKeyOwn(strategies, n) == n

\* strategy_signals is keyed by strategy.name: the signals read for the n-th
\* strategy are those generated by the last strategy of the list that has
\* its name.
SignalsKey(strategies, n) ==
    CHOOSE j \in 1..Len(strategies) :
        /\ strategies[j].name = strategies[n].name
        /\ \A i \in 1..Len(strategies) :
              strategies[i].name = strategies[n].name => i <= j

\* The sums the loop over the first n strategies leaves.
RECURSIVE FusedUpTo(_, _, _, _, _)
FusedUpTo(data, date_idx, strategies, symbol, n) ==
    IF n = 0
    THEN [combined_strength |-> Zero, total_weight |-> Zero,
          buy_count |-> 0, sell_count |-> 0]
    ELSE LET f == FusedUpTo(data, date_idx, strategies, symbol, n - 1)
             recent_sig == RecentSignal(data, date_idx,
                                        SignalsKey(strategies, n), symbol, 0)
             weight == strategies[n].weight
         IN  IF recent_sig.signal_type = "NONE" THEN f
             ELSE [combined_strength |->
                       RAdd(f.combined_strength,
                            RMul(recent_sig.strength, weight)),
                   total_weight |-> RAdd(f.total_weight, weight),
                   buy_count |-> f.buy_count +
                       (IF recent_sig.signal_type = "BUY" THEN 1 ELSE 0),
                   sell_count |-> f.sell_count +
                       (IF recent_sig.signal_type = "SELL" THEN 1 ELSE 0)]

\* The fused signal of a symbol on a date.
CombinedSignal(data, date_idx, strategies, symbol) ==
    LET f == FusedUpTo(data, date_idx, strategies, symbol, Len(strategies))
    IN  [combined_strength |->
             IF RGt(f.total_weight, Zero)
             THEN RDiv(f.combined_strength, f.total_weight)
             ELSE f.combined_strength,
         buy_count |-> f.buy_count, sell_count |-> f.sell_count]

\* (a variant that one vote satisfies)
has_consensus_single(f) ==
    \/ f.buy_count >= 1 /\ RGt(f.combined_strength, Zero)
    \/ f.sell_count >= 1 /\ RLt(f.combined_strength, Zero)

\* has_consensus: two strategies vote with the sign of the fused strength.
has_consensus(f) ==
    \/ f.buy_count >= 2 /\ RGt(f.combined_strength, Zero)
    \/ f.sell_count >= 2 /\ RLt(f.combined_strength, Zero)

\* The gate of a fused signal: threshold and consensus.
SignalConfirmed(f, signal_threshold) ==
    RGe(RAbs(f.combined_strength), signal_threshold) /\ has_consensus(f)

\* (a variant without cooldown)
InCooldownNever(last_trade_date, symbol, current_idx) == FALSE

\* The cooldown check of a symbol on the date current_idx.
InCooldown(last_trade_date, symbol, current_idx) ==
    /\ symbol \in DOMAIN last_trade_date
    /\ current_idx - last_trade_date[symbol] < trade_cooldown


\* The objects one run works on, gathered in a record w: the Portfolio
\* (cash, positions, trade_history, realized_pnl, equity_history), the
\* executor's order_history, the RiskManager's peak (peak_equity, seen) and
\* the locals position_high and last_trade_date.  w also keeps the record
\* of the pass: the orders it executed, each with the branch that created
\* it (events), the fused signal of each symbol it fused (fused), and the
\* outcome of its drawdown check.

\* An order the pass executed: by the exit pass under a rule, or by the
\* signal branch on a fused signal f.
ExitEvent(order, rule) ==
    [kind |-> "exit", symbol |-> order.symbol, rule |-> rule, order |-> order,
     combined_strength |-> Zero, buy_count |-> 0, sell_count |-> 0]
SignalEvent(order, f) ==
    [kind |-> "signal", symbol |-> order.symbol, rule |-> "", order |-> order,
     combined_strength |-> f.combined_strength, buy_count |-> f.buy_count,
     sell_count |-> f.sell_count]

\* executor.create_order(...) followed by executor.execute_order on it.
ExecuteIn(w, order, rm, lim, rate, slip) ==
    Only({[order |-> x.order,
           w |-> [w EXCEPT !.cash = x.portfolio.cash,
                           !.positions = x.portfolio.positions,
                           !.trade_history = x.portfolio.trade_history,
                           !.realized_pnl = x.portfolio.realized_pnl,
                           !.order_history = Append(@, x.order)]] :
          x \in {ExecuteResult(order, w.cash, w.positions, w.trade_history,
                               w.realized_pnl, rm, lim, rate, slip)}})

\* The index of the last buy of symbol among the first n trades, 0 if none.
RECURSIVE LastBuy(_, _, _)
LastBuy(hist, symbol, n) ==
    IF n = 0 THEN 0
    ELSE IF hist[n].symbol = symbol /\ hist[n].side = "buy" THEN n
    ELSE LastBuy(hist, symbol, n - 1)

\* The symbols syms in the order positions.items() yields them.  A run opens
\* a position with one buy and never adds to it, so a position's place in
\* the dict is that of its last buy.
RECURSIVE InsertionOrder(_, _)
InsertionOrder(syms, hist) ==
    IF syms = {} THEN << >>
    ELSE LET first == CHOOSE s \in syms : \A t \in syms :
                          LastBuy(hist, s, Len(hist)) <= LastBuy(hist, t, Len(hist))
         IN  <<first>> \o InsertionOrder(syms \ {first}, hist)

\* (a variant that tries the trailing stop before the stop-loss)
ExitRuleTrailingFirst(lim, pos, current_price, position_high) ==
    IF /\ DOMAIN position_high # {}
       /\ check_trailing_stop(pos.avg_price, current_price,
              IF pos.symbol \in DOMAIN position_high
              THEN position_high[pos.symbol] ELSE current_price,
              DefaultTrailingPct, DefaultActivationPct).triggered
    THEN "trailing stop"
    ELSE IF check_stop_loss(lim, pos.avg_price, current_price).triggered
    THEN "stop loss"
    ELSE IF check_take_profit(lim, pos.avg_price, current_price).triggered
    THEN "take profit"
    ELSE ""

\* The rule that closes a position at current_price, "" if none does:
\* the body of the first loop of _check_stop_loss_take_profit.
ExitRule(lim, pos, current_price, position_high) ==
    IF check_stop_loss(lim, pos.avg_price, current_price).triggered
    THEN "stop loss"
    ELSE IF /\ DOMAIN position_high # {}
            /\ check_trailing_stop(pos.avg_price, current_price,
                   IF pos.symbol \in DOMAIN position_high
                   THEN position_high[pos.symbol] ELSE current_price,
                   DefaultTrailingPct, DefaultActivationPct).triggered
    THEN "trailing stop"
    ELSE IF check_take_profit(lim, pos.avg_price, current_price).triggered
    THEN "take profit"
    ELSE ""

\* symbols_to_close: the held symbols a rule closes, in dict order.
SymbolsToClose(w, lim, prices) ==
    LET hit == {s \in DOMAIN w.positions :
                   /\ s \in DOMAIN prices
                   /\ ExitRule(lim, w.positions[s], prices[s],
                               w.position_high) # ""}
    IN  InsertionOrder(hit, w.trade_history)

\* The second loop of _check_stop_loss_take_profit from its n-th entry on:
\* a SELL of the whole position at the current price, executed without the
\* risk manager.  quantities are those read by the first loop.
RECURSIVE CloseFrom(_, _, _, _, _, _, _, _, _)
CloseFrom(w, to_close, n, quantities, prices, date, lim, rate, slip) ==
    IF n > Len(to_close) THEN w
    ELSE LET symbol == to_close[n]
             order == Order(symbol, "SELL", quantities[symbol],
                            prices[symbol], date)
             rule == ExitRule(lim, w.positions[symbol], prices[symbol],
                              w.position_high)
         IN  Only({CloseFrom([x.w EXCEPT !.events =
                                  Append(@, ExitEvent(x.order, rule))],
                             to_close, n + 1, quantities, prices, date,
                             lim, rate, slip) :
                   x \in {ExecuteIn(w, order, FALSE, lim, rate, slip)}})

\* _check_stop_loss_take_profit, and the pops of position_high that follow.
CheckStopLossTakeProfit(w, prices, date, lim, rate, slip) ==
    LET quantities == [s \in DOMAIN w.positions |-> w.positions[s].quantity]
    IN  Only({[CloseFrom(w, to_close, 1, quantities, prices, date,
                         lim, rate, slip)
                 EXCEPT !.position_high =
                            Pop(@, {to_close[i] : i \in 1..Len(to_close)})] :
              to_close \in {SymbolsToClose(w, lim, prices)}})

\* (a variant that buys whether or not the symbol is held)
BuyBranchWhileHeld(combined_strength, poss, symbol) ==
    RGt(combined_strength, Zero)

\* The condition of the branch that buys.
BuyBranch(combined_strength, poss, symbol) ==
    RGt(combined_strength, Zero) /\ symbol \notin DOMAIN poss

\* The body of the loop over the symbols, for one symbol.  buys and sells
\* are the conditions of the two branches that create an order; either
\* order is executed with the risk manager, and a fill stamps the cooldown
\* and sets (BUY, to the day's close) or drops (SELL) the running high.
TradeSymbol(w, symbol, data, current_idx, strategies, signal_threshold, lim, rate, slip) ==
    LET prices == data[current_idx + 1].prices
        f == CombinedSignal(data, current_idx, strategies, symbol)
        combined_strength == f.combined_strength
        price == prices[symbol]
        buys == BuyBranch(combined_strength, w.positions, symbol)
        sells == RLt(combined_strength, Zero) /\ symbol \in DOMAIN w.positions
        quantity == IF buys
                    THEN calculate_position_size(lim,
                             EquityOf(w.cash, w.positions), price,
                             combined_strength, None)
                    ELSE w.positions[symbol].quantity
        order == Order(symbol, IF buys THEN "BUY" ELSE "SELL", quantity,
                       price, current_idx)
        fused == [w EXCEPT !.fused = Put(@, symbol, f)]
    IN  IF symbol \notin DOMAIN prices THEN w
        ELSE IF ~SignalConfirmed(f, signal_threshold) THEN fused
        ELSE IF InCooldown(w.last_trade_date, symbol, current_idx) THEN fused
        ELSE IF ~(buys \/ sells) THEN fused
        ELSE IF buys /\ quantity <= 0 THEN fused
        ELSE Only({IF x.order.status # "FILLED"
                   THEN [x.w EXCEPT !.events = Append(@, SignalEvent(x.order, f))]
                   ELSE [x.w EXCEPT
                            !.events = Append(@, SignalEvent(x.order, f)),
                            !.position_high =
                                IF buys THEN Put(@, symbol, price)
                                ELSE Pop(@, {symbol}),
                            !.last_trade_date = Put(@, symbol, current_idx)] :
                   x \in {ExecuteIn(fused, order, TRUE, lim, rate, slip)}})

\* The loop over data_dict.keys() from its n-th symbol on.
RECURSIVE TradeFrom(_, _, _, _, _, _, _, _, _, _)
TradeFrom(w, symbols, n, data, current_idx, strategies, signal_threshold, lim, rate, slip) ==
    IF n > Len(symbols) THEN w
    ELSE Only({TradeFrom(v, symbols, n + 1, data, current_idx, strategies,
                         signal_threshold, lim, rate, slip) :
               v \in {TradeSymbol(w, symbols[n], data, current_idx,
                                  strategies, signal_threshold,
                                  lim, rate, slip)}})

\* Portfolio.record_equity(date): the snapshot appended.
EquityRecord(w, date) ==
    [date |-> date,
     equity |-> EquityOf(w.cash, w.positions),
     cash |-> w.cash,
     position_value |-> ValueOfPositions(w.positions),
     realized_pnl |-> w.realized_pnl,
     unrealized_pnl |-> SumValues(w.positions, DOMAIN w.positions,
                                  "unrealized_pnl")]

\* (a variant that leaves out the snapshot of a breaker day)
record_equity_unless_hit(w, date) ==
    IF w.drawdown_hit THEN w
    ELSE [w EXCEPT !.equity_history = Append(@, EquityRecord(w, date))]

record_equity(w, date) ==
    [w EXCEPT !.equity_history = Append(@, EquityRecord(w, date))]

\* (a variant that never raises a running high)
RaisedHighsKept(position_high, poss, prices) == position_high

\* The running highs after the day's closes are seen.
RaisedHighs(position_high, poss, prices) ==
    LET held == DOMAIN prices \cap DOMAIN poss
    IN  [s \in DOMAIN position_high \cup held |->
            IF /\ s \in held
               /\ (s \notin DOMAIN position_high
                     \/ RGt(prices[s], position_high[s]))
            THEN prices[s] ELSE position_high[s]]

\* The Portfolio and the running highs after the day's closes are seen:
\* portfolio.update_prices(prices) and the loop that raises position_high.
Priced(w, prices) ==
    [w EXCEPT !.positions = UpdatedPositions(@, prices),
              !.position_high =
                  RaisedHighs(@, UpdatedPositions(w.positions, prices), prices)]

\* (a variant whose outcome does not stop the day)
DrawdownCheckedUnheeded(w, lim) ==
    LET e == EquityOf(w.cash, w.positions)
        r == check_max_drawdown(lim, w.peak_equity, e)
    IN  [hit |-> FALSE,
         w |-> [w EXCEPT !.peak_equity = r.peak,
                         !.seen = [equities |-> @.equities \cup {e},
                                   tripped |-> @.tripped \/ r.triggered],
                         !.drawdown_hit = r.triggered,
                         !.breaker_equity = e]]

\* The drawdown check of the day and what it leaves in the RiskManager.
DrawdownChecked(w, lim) ==
    LET e == EquityOf(w.cash, w.positions)
        r == check_max_drawdown(lim, w.peak_equity, e)
    IN  [hit |-> r.triggered,
         w |-> [w EXCEPT !.peak_equity = r.peak,
                         !.seen = [equities |-> @.equities \cup {e},
                                   tripped |-> @.tripped \/ r.triggered],
                         !.drawdown_hit = r.triggered,
                         !.breaker_equity = e]]

\* risk_manager.update_peak_equity(portfolio.total_equity)
PeakUpdated(w) ==
    LET e == EquityOf(w.cash, w.positions)
    IN  [w EXCEPT !.peak_equity = update_peak_equity(@, e),
                  !.seen = [@ EXCEPT !.equities = @ \cup {e}]]

\* One pass of the daily loop of run, for the date current_idx.
DayResult(w, symbols, data, current_idx, strategies, signal_threshold, lim, rate, slip) ==
    LET prices == data[current_idx + 1].prices
        exited == {CheckStopLossTakeProfit(p, prices, current_idx,
                                           lim, rate, slip) :
                      p \in {Priced(w, prices)}}
        checked == {DrawdownChecked(e, lim) : e \in exited}
        traded == {IF dd.hit THEN dd.w
                   ELSE Only({PeakUpdated(t) :
                              t \in {TradeFrom(dd.w, symbols, 1, data,
                                               current_idx, strategies,
                                               signal_threshold,
                                               lim, rate, slip)}}) :
                      dd \in checked}
    IN  Only({record_equity(t, current_idx) : t \in traded})


\* Bounds of the backtests: the runs made on one Backtester and the dates
\* of the data.
MaxRuns == 2
MaxDays == 3

World ==
    [cash |-> cash, positions |-> positions, trade_history |-> trade_history,
     realized_pnl |-> realized_pnl, order_history |-> order_history,
     peak_equity |-> peak_equity, seen |-> seen,
     position_high |-> backtester.position_high,
     last_trade_date |-> backtester.last_trade_date,
     equity_history |-> equity_history,
     events |-> << >>, fused |-> << >>, drawdown_hit |-> FALSE,
     breaker_equity |-> Zero]

\* The events whose order was filled; backtester.fills keeps those of the
\* run so far.
IsFill(e) == e.order.status = "FILLED"

\* (a variant that keeps the cooldown stamps of the run before)
FreshLastTradeDateKept(last_trade_date) == last_trade_date

\* last_trade_date as run starts with it.
FreshLastTradeDate(last_trade_date) == << >>

\* Backtester.run(strategies, data_dict, signal_threshold) up to the daily
\* loop: a fresh Portfolio, RiskManager and OrderExecutor, the peak set to
\* the initial capital, and empty locals.  The first run's data is read as
\* the loop goes; a later run is given the data and strategies of the first.
\* At most runs runs are made.
StartRunWith(thresholds, strategy_lists, symbol_lists, runs) ==
    /\ backtester.pc = "idle"
    /\ Len(backtester.results) < runs
    /\ \E t \in thresholds, sl \in strategy_lists, syms \in symbol_lists :
          LET first == backtester.results = << >>
          IN  /\ backtester' =
                     [backtester EXCEPT
                         !.pc = "loop",
                         !.signal_threshold = t,
                         !.strategies = IF first THEN sl ELSE @,
                         !.symbols = IF first THEN syms ELSE @,
                         !.data = IF first THEN << >> ELSE @,
                         !.day = 0,
                         !.position_high = << >>,
                         !.last_trade_date = FreshLastTradeDate(@),
                         !.fills = << >>]
              /\ call' = RiskCall("run", [signal_threshold |-> t])
    /\ cash' = initial_capital
    /\ positions' = << >>
    /\ trade_history' = << >>
    /\ realized_pnl' = Zero
    /\ equity_history' = << >>
    /\ order_history' = << >>
    /\ peak_equity' = update_peak_equity(Zero, initial_capital)
    /\ seen' = [equities |-> {initial_capital}, tripped |-> FALSE]
    /\ ret' = TRUE
    /\ pre' = Snapshot
    /\ UNCHANGED <<initial_capital, commission_rate, slippage, limits>>

\* One pass of the daily loop.  In the first run the row of the date is
\* drawn from rows, the data having at most days dates; a later run reads
\* the rows of the first.  What it returns is the record of the pass.
DayWith(rows, days) ==
    /\ backtester.pc = "loop"
    /\ \/ backtester.day < Len(backtester.data)
       \/ backtester.results = << >> /\ backtester.day < days
    /\ \E row \in IF backtester.day < Len(backtester.data)
                  THEN {backtester.data[backtester.day + 1]} ELSE rows :
          \E data \in {IF backtester.day < Len(backtester.data)
                       THEN backtester.data
                       ELSE Append(backtester.data, row)} :
          \E w \in {DayResult(World, backtester.symbols, data,
                              backtester.day, backtester.strategies,
                              backtester.signal_threshold, limits,
                              commission_rate, slippage)} :
              /\ cash' = w.cash
              /\ positions' = w.positions
              /\ trade_history' = w.trade_history
              /\ realized_pnl' = w.realized_pnl
              /\ order_history' = w.order_history
              /\ peak_equity' = w.peak_equity
              /\ seen' = w.seen
              /\ equity_history' = w.equity_history
              /\ backtester' =
                     [backtester EXCEPT
                         !.data = data,
                         !.day = @ + 1,
                         !.position_high = w.position_high,
                         !.last_trade_date = w.last_trade_date,
                         !.fills = @ \o SelectSeq(w.events, IsFill)]
              /\ call' = RiskCall("day", [date |-> backtester.day])
              /\ ret' = [events |-> w.events,
                         fused |-> w.fused,
                         drawdown_hit |-> w.drawdown_hit,
                         breaker_equity |-> w.breaker_equity]
    /\ pre' = Snapshot
    /\ UNCHANGED <<initial_capital, commission_rate, slippage, limits>>

\* Portfolio.get_trade_summary and _calculate_metrics: the metrics that are
\* sums and counts (the ratios built on the daily returns are left out).
Metrics(capital, w) ==
    LET final_equity == EquityOf(w.cash, w.positions)
        sides == [i \in 1..Len(w.trade_history) |-> w.trade_history[i].side]
    IN  [initial_capital |-> capital,
         final_equity |-> final_equity,
         total_pnl |-> RSub(final_equity, capital),
         realized_pnl |-> w.realized_pnl,
         total_trades |-> Len(w.trade_history),
         buy_trades |-> Cardinality({i \in DOMAIN sides : sides[i] = "buy"}),
         sell_trades |-> Cardinality({i \in DOMAIN sides : sides[i] = "sell"})]

\* (a variant without the early return on an empty date list)
BacktestResultAlwaysGenerated(capital, w, dates) ==
    [equity_curve |-> w.equity_history, trades |-> w.trade_history,
     metrics |-> Metrics(capital, w)]

\* _generate_result, and _empty_result when the data has no date.
BacktestResult(capital, w, dates) ==
    IF dates = 0
    THEN [equity_curve |-> << >>, trades |-> << >>,
          metrics |-> [error |-> "no valid data"]]
    ELSE [equity_curve |-> w.equity_history, trades |-> w.trade_history,
          metrics |-> Metrics(capital, w)]

\* The return of run: after the last date of the data.  The data of the
\* first run ends where the run is made to return.
FinishRun ==
    /\ backtester.pc = "loop"
    /\ backtester.day = Len(backtester.data)
    /\ LET result == BacktestResult(initial_capital, World, backtester.day)
       IN  /\ backtester' =
                  [backtester EXCEPT
                      !.pc = "idle",
                      !.results = Append(@,
                          [signal_threshold |-> backtester.signal_threshold,
                           result |-> result])]
           /\ ret' = result
    /\ call' = RiskCall("return", << >>)
    /\ pre' = Snapshot
    /\ UNCHANGED <<pvars, evars, rvars, equity_history>>

\* The backtests explored: one instrument, two strategies of weight 1 that
\* date the same signal, the default settings of Backtester.
BtThresholds == {Norm(1, 10), Norm(8, 10)}
BtStrategies == {<<Strategy("s1", R(1)), Strategy("s2", R(1))>>}
BtSymbols == {<<"A">>}
BtCloses == {R(10), Norm(102, 10), Norm(945, 100)}
BtSignals ==
    {Signal("BUY", Norm(3, 10)), Signal("BUY", R(1)), Signal("SELL", R(-1))}
BtRows ==
    {[prices |-> [s \in {"A"} |-> c], signals |-> <<sg, sg>>] :
        c \in BtCloses,
        sg \in {<< >>} \cup {[s \in {"A"} |-> x] : x \in BtSignals}}

StartRun == StartRunWith(BtThresholds, BtStrategies, BtSymbols, MaxRuns)
Day == DayWith(BtRows, MaxDays)

InitBacktest ==
    /\ initial_capital = R(1000000)
    /\ cash = initial_capital
    /\ positions = << >>
    /\ trade_history = << >>
    /\ realized_pnl = Zero
    /\ commission_rate = Norm(1, 1000)
    /\ slippage = Norm(1, 1000)
    /\ order_history = << >>
    /\ limits = DefaultLimits
    /\ peak_equity = Zero
    /\ seen = NothingSeen
    /\ backtester = NoBacktest
    /\ equity_history = << >>
    /\ call = RiskCall("init", << >>)
    /\ ret = TRUE
    /\ pre = NoSnapshot

NextBacktest == StartRun \/ Day \/ FinishRun

SpecBacktest == InitBacktest /\ [][NextBacktest]_vars


\* A longer backtest, of one run: one instrument and three strategies of
\* weight 1.  The dates in EventDays draw their row from a menu of closes
\* and of votes of the three strategies; the other dates are quiet: the
\* close is 10 and no strategy dates a signal.
LongDays == 12
EventDays == {0, 9, 10, 11}
LongStrategies ==
    {<<Strategy("s1", R(1)), Strategy("s2", R(1)), Strategy("s3", R(1))>>}
LongCloses == {R(10), Norm(92, 10)}
Vote(signal) == IF signal = NoSignal THEN << >> ELSE [s \in {"A"} |-> signal]
BuyVote == Signal("BUY", R(1))
SellVote == Signal("SELL", R(-1))
LongVotes ==
    {<<NoSignal, NoSignal, NoSignal>>, <<BuyVote, BuyVote, NoSignal>>,
     <<SellVote, SellVote, NoSignal>>, <<BuyVote, NoSignal, NoSignal>>,
     <<BuyVote, BuyVote, SellVote>>, <<BuyVote, SellVote, NoSignal>>}
QuietRow ==
    [prices |-> [s \in {"A"} |-> R(10)], signals |-> <<<< >>, << >>, << >>>>]
EventRows(closes, votes) ==
    IF backtester.day \in EventDays
    THEN {[prices |-> [s \in {"A"} |-> c],
           signals |-> <<Vote(v[1]), Vote(v[2]), Vote(v[3])>>] :
             c \in closes, v \in votes}
    ELSE {QuietRow}
LongRows == EventRows(LongCloses, LongVotes)

LongStartRun == StartRunWith({Norm(1, 10)}, LongStrategies, BtSymbols, 1)
LongDay == DayWith(LongRows, LongDays)

NextLong == LongStartRun \/ LongDay \/ FinishRun

SpecLong == InitBacktest /\ [][NextLong]_vars


\* The same 12 dates with closes that reach every stop rule and the
\* drawdown breaker.  An entry at 9.2 (filled at 9.21) sees the high 10 of
\* the quiet dates: a close of 9.2 then meets the trailing stop alone, and a
\* close of 2.015 the stop-loss and the trailing stop together.  An entry at
\* 2.015 meets the take-profit on the next quiet date.  An entry at 10
\* takes a quarter of the equity, and its stop-loss exit at 2.015 leaves a
\* drawdown of 20.01%, where the equity before the exit is 19.99% down.
ExitCloses == {R(10), Norm(92, 10), Norm(2015, 1000)}
ExitVotes ==
    {<<NoSignal, NoSignal, NoSignal>>, <<BuyVote, BuyVote, NoSignal>>,
     <<SellVote, SellVote, NoSignal>>}
ExitRows == EventRows(ExitCloses, ExitVotes)

ExitStartRun == StartRunWith({Norm(1, 10)}, LongStrategies, BtSymbols, 1)
ExitDay == DayWith(ExitRows, LongDays)

NextExit == ExitStartRun \/ ExitDay \/ FinishRun

SpecExit == InitBacktest /\ [][NextExit]_vars

\* Backtests of two strategies of weights 1 and 3, with names that differ
\* or with one name (two strategies of one class).  The dates in
\* FusionEventDays draw the signal each strategy dates from none, a BUY of
\* strength 0.5 and a SELL created with strength -2; the close is 10.
FusionDays == 7
FusionEventDays == {0, 1, 5}
FusionStrategies ==
    {<<Strategy("s1", R(1)), Strategy("s2", R(3))>>,
     <<Strategy("s1", R(1)), Strategy("s1", R(3))>>}
FusionVotes == {NoSignal, Signal("BUY", Norm(1, 2)), Signal("SELL", R(-2))}
FusionRows ==
    IF backtester.day \in FusionEventDays
    THEN {[prices |-> [s \in {"A"} |-> R(10)],
           signals |-> <<Vote(u), Vote(v)>>] :
             u \in FusionVotes, v \in FusionVotes}
    ELSE {[prices |-> [s \in {"A"} |-> R(10)], signals |-> <<<< >>, << >>>>]}

FusionStartRun == StartRunWith({Norm(1, 10)}, FusionStrategies, BtSymbols, 1)
FusionDay == DayWith(FusionRows, FusionDays)

NextFusion == FusionStartRun \/ FusionDay \/ FinishRun

SpecFusion == InitBacktest /\ [][NextFusion]_vars


\* Backtests of one run with no strategy, one strategy and two strategies:
\* on every date each strategy dates the same signal, or none.
FewStrategies ==
    {<< >>, <<Strategy("s1", R(1))>>,
     <<Strategy("s1", R(1)), Strategy("s2", R(1))>>}
FewRows ==
    {[prices |-> [s \in {"A"} |-> c],
      signals |-> [k \in 1..Len(backtester.strategies) |-> sg]] :
        c \in BtCloses,
        sg \in {<< >>} \cup {[s \in {"A"} |-> x] : x \in BtSignals}}
FewStartRun == StartRunWith({Norm(1, 10)}, FewStrategies, BtSymbols, 1)
FewDay == DayWith(FewRows, MaxDays)
NextFew == FewStartRun \/ FewDay \/ FinishRun
SpecFew == InitBacktest /\ [][NextFew]_vars

----------------------------------------------------------------------------
(* Properties of the Backtester, checked under SpecBacktest.               *)

\* The runs returned so far: their thresholds and results.
Results == backtester.results
Returned(i) == Results[i].result
TradeCount(i) == Len(Returned(i).trades)

\* C19: of two runs on the same data, strategies and settings, the one with
\* the higher signal threshold never returns more trade records.
C19_ThresholdMonotonic ==
    \A i, j \in 1..Len(Results) :
        RLe(Results[i].signal_threshold, Results[j].signal_threshold)
            => TradeCount(j) <= TradeCount(i)

\* C20: two runs on the same data, strategies and settings with the same
\* threshold return the same equity curve and the same trade list, whatever
\* was run in between.
C20_Deterministic ==
    \A i, j \in 1..Len(Results) :
        Results[i].signal_threshold = Results[j].signal_threshold
            => /\ Returned(i).equity_curve = Returned(j).equity_curve
               /\ Returned(i).trades = Returned(j).trades

\* Two runs with one threshold have returned after trading: a buy, an exit
\* and a date on which the cooldown of the run itself was in force.
C20_Witness ==
    /\ Len(Results) = 2
    /\ Results[1].signal_threshold = Results[2].signal_threshold
    /\ TradeCount(2) >= 2
    /\ Len(Returned(2).equity_curve) = MaxDays
    /\ DOMAIN backtester.last_trade_date # {}

\* C21: a run on data without any trading date makes no pass of the loop and
\* creates no order, and returns an empty equity curve, an empty trade list
\* and metrics that carry an error marker.
C21_EmptyData ==
    (IsCall("return") /\ backtester.data = << >>) =>
        /\ backtester.day = 0
        /\ equity_history = << >>
        /\ order_history = << >>
        /\ ret.equity_curve = << >>
        /\ ret.trades = << >>
        /\ DOMAIN ret.metrics = {"error"}

\* A second run on the same empty data has returned.
C21_Witness ==
    /\ IsCall("return")
    /\ backtester.data = << >>
    /\ Len(Results) = 2
    /\ Returned(2) = ret

----------------------------------------------------------------------------
(* Properties of the daily loop, read off the pass just made: ret holds    *)
(* its events, pre the Portfolio and the locals before it, and the row of  *)
(* the date is the last of backtester.data read.                           *)

Today == backtester.day - 1
TodayRow == backtester.data[backtester.day]
Events == ret.events
EventsOf(kind) == {n \in 1..Len(Events) : Events[n].kind = kind}

\* The dates of the signal window of date d.
SignalWindow(d) == {i \in 0..d : i > d - 5}

\* The signal strategy k dated last for symbol in the window of date d.
LatestSignal(k, symbol, d) ==
    LET dated == {i \in SignalWindow(d) :
                     symbol \in DOMAIN backtester.data[i + 1].signals[k]}
        last == CHOOSE i \in dated : \A j \in dated : j <= i
    IN  IF dated = {} THEN NoSignal
        ELSE backtester.data[last + 1].signals[k][symbol]

VotesFor(symbol, d, type) ==
    Cardinality({k \in 1..Len(backtester.strategies) :
                    LatestSignal(k, symbol, d).signal_type = type})

\* C22: every order the signal branch creates has a consensus behind it: a
\* fused strength above 0 with at least two strategies whose latest signal
\* in the window is a BUY, or one below 0 with at least two SELL.
C22_Consensus ==
    IsCall("day") =>
        \A n \in EventsOf("signal") :
            LET e == Events[n]
            IN  \/ /\ RGt(e.combined_strength, Zero)
                   /\ VotesFor(e.symbol, Today, "BUY") >= 2
                \/ /\ RLt(e.combined_strength, Zero)
                   /\ VotesFor(e.symbol, Today, "SELL") >= 2

\* A SELL is created on two SELL votes, one of them dated on an earlier day.
C22_Witness ==
    /\ IsCall("day")
    /\ \E n \in EventsOf("signal") :
          /\ Events[n].order.side = "SELL"
          /\ Events[n].order.status = "FILLED"
          /\ VotesFor(Events[n].symbol, Today, "SELL") = 2
          /\ DOMAIN TodayRow.signals[1] = {}

Fills == backtester.fills
FillsOf(kind) == {n \in 1..Len(Fills) : Fills[n].kind = kind}
FillDate(n) == Fills[n].order.date

\* C23: two fills of the signal branch on one instrument are at least 10
\* dates apart, and on a date less than 10 after the instrument's last
\* stamped fill the signal branch creates no order for it.
C23_Cooldown ==
    /\ \A i, j \in FillsOf("signal") :
          (i < j /\ Fills[i].symbol = Fills[j].symbol)
              => FillDate(j) - FillDate(i) >= 10
    /\ IsCall("day") =>
          \A s \in DOMAIN pre.last_trade_date :
              Today - pre.last_trade_date[s] < 10
                  => \A n \in EventsOf("signal") : Events[n].symbol # s

\* A signal fill exactly 10 dates after the one before it.
C23_Witness ==
    /\ IsCall("day")
    /\ \E i, j \in FillsOf("signal") :
          /\ FillDate(i) = 0
          /\ FillDate(j) = 10
          /\ FillDate(j) = Today

\* C24: after an exit of the stop rules fills on date d, the signal branch
\* submits no BUY order for that instrument on the dates d .. d+9.
C24_CooldownAfterExit ==
    IsCall("day") =>
        \A n \in EventsOf("signal"), x \in FillsOf("exit") :
            (Events[n].order.side = "BUY" /\ Events[n].symbol = Fills[x].symbol)
                => ~(FillDate(x) <= Today /\ Today <= FillDate(x) + 9)

\* The equity at today's closes of the portfolio the day started with.
EquityBeforeExits ==
    EquityOf(pre.cash, UpdatedPositions(pre.positions, TodayRow.prices))

\* C25: on a day whose drawdown check triggers, the signal branch creates
\* no order; the exit pass has run before the check: every position whose
\* stop-loss holds at the day's close is sold, the exit orders are executed,
\* and the equity the check sees is the one after them, down from the peak
\* by the limit or more.
C25_BreakerDay ==
    (IsCall("day") /\ ret.drawdown_hit) =>
        /\ EventsOf("signal") = {}
        /\ \A s \in DOMAIN pre.positions \cap DOMAIN TodayRow.prices :
              check_stop_loss(limits, pre.positions[s].avg_price,
                              TodayRow.prices[s]).triggered
                  => /\ s \notin DOMAIN positions
                     /\ \E n \in EventsOf("exit") : Events[n].symbol = s
        /\ \A n \in EventsOf("exit") :
              /\ Events[n].order.status = "FILLED"
              /\ \E k \in 1..Len(order_history) :
                    order_history[k] = Events[n].order
        /\ ret.breaker_equity = total_equity
        /\ RGe(RSub(pre.peak_equity, ret.breaker_equity),
               RMul(limits.max_drawdown_pct, pre.peak_equity))

\* A breaker day with two BUY votes out of cooldown, whose exit tips the
\* drawdown over the limit: the equity before the exit was above it.
C25_Witness ==
    /\ IsCall("day")
    /\ ret.drawdown_hit
    /\ EventsOf("exit") # {}
    /\ VotesFor("A", Today, "BUY") = 2
    /\ Today - pre.last_trade_date["A"] >= 10
    /\ RLt(RSub(pre.peak_equity, EquityBeforeExits),
           RMul(limits.max_drawdown_pct, pre.peak_equity))

\* C26: the equity history has one row per date passed, in date order,
\* whatever the day did; each row's equity is its cash plus its position
\* value; the run returns as many rows as the data has dates.
C26_EquityHistory ==
    /\ backtester.pc = "loop" =>
          /\ Len(equity_history) = backtester.day
          /\ \A i \in 1..Len(equity_history) :
                /\ equity_history[i].date = i - 1
                /\ equity_history[i].equity =
                       RAdd(equity_history[i].cash,
                            equity_history[i].position_value)
    /\ IsCall("return") =>
          /\ Len(ret.equity_curve) = Len(backtester.data)
          /\ ret.equity_curve = equity_history

\* A run returned with 11 rows or more, after days with a trade, without
\* one and with the breaker triggered.
C26_Witness ==
    /\ IsCall("return")
    /\ Len(ret.equity_curve) >= 11
    /\ seen.tripped
    /\ Len(trade_history) >= 2
    /\ \E i \in 1..Len(equity_history) :
          equity_history[i].position_value # Zero

\* The positions the day started with that have a close today, and the
\* three stop conditions of such a position at today's close; the running
\* high is the one the day started with, raised to the close.
PricedHeld == DOMAIN pre.positions \cap DOMAIN TodayRow.prices
HighToday(s) ==
    IF s \in DOMAIN pre.position_high
         /\ RGe(pre.position_high[s], TodayRow.prices[s])
    THEN pre.position_high[s] ELSE TodayRow.prices[s]
StopLossHolds(s) ==
    check_stop_loss(limits, pre.positions[s].avg_price,
                    TodayRow.prices[s]).triggered
TrailingStopHolds(s) ==
    check_trailing_stop(pre.positions[s].avg_price, TodayRow.prices[s],
                        HighToday(s), Norm(5, 100), Norm(3, 100)).triggered
TakeProfitHolds(s) ==
    check_take_profit(limits, pre.positions[s].avg_price,
                      TodayRow.prices[s]).triggered
ExitsOf(s) == {n \in EventsOf("exit") : Events[n].symbol = s}

\* C27: the exit pass creates at most one order per position and day, for
\* the positions one of whose stop conditions holds; the order is a SELL of
\* the whole position and its rule is the first that holds of stop-loss,
\* trailing stop, take-profit.
C27_ExitPriority ==
    IsCall("day") =>
        /\ \A n \in EventsOf("exit") : Events[n].symbol \in PricedHeld
        /\ \A s \in PricedHeld :
              IF StopLossHolds(s) \/ TrailingStopHolds(s) \/ TakeProfitHolds(s)
              THEN /\ Cardinality(ExitsOf(s)) = 1
                   /\ \A n \in ExitsOf(s) :
                         /\ Events[n].order.side = "SELL"
                         /\ Events[n].order.quantity = pre.positions[s].quantity
                         /\ Events[n].order.price = TodayRow.prices[s]
                         /\ Events[n].rule =
                                IF StopLossHolds(s) THEN "stop loss"
                                ELSE IF TrailingStopHolds(s)
                                THEN "trailing stop" ELSE "take profit"
              ELSE ExitsOf(s) = {}

\* An exit by stop-loss of a position whose trailing stop holds as well.
C27_Witness ==
    /\ IsCall("day")
    /\ \E s \in PricedHeld :
          /\ StopLossHolds(s)
          /\ TrailingStopHolds(s)
          /\ \E n \in ExitsOf(s) : Events[n].rule = "stop loss"

\* The trade records of a symbol, by their place in trade_history: the
\* records before the i-th, and the last of them.
TradesOf(s) == {i \in 1..Len(trade_history) : trade_history[i].symbol = s}
TradesBefore(s, i) == {j \in TradesOf(s) : j < i}
LastBefore(s, i) == CHOOSE j \in TradesBefore(s, i) : \A k \in TradesBefore(s, i) : k <= j

\* C28: the positions of a run are long; the trade records of an
\* instrument alternate buy, sell from a buy on, each sell with the
\* quantity of the buy before it; the signal branch creates a BUY order
\* only for an instrument without a position (not held when the day
\* started, or sold by the day's exit pass).
C28_LongOnlyAlternating ==
    /\ \A s \in DOMAIN positions : positions[s].quantity > 0
    /\ \A i \in 1..Len(trade_history) :
          LET s == trade_history[i].symbol
          IN  IF Cardinality(TradesBefore(s, i)) % 2 = 0
              THEN trade_history[i].side = "buy"
              ELSE /\ trade_history[i].side = "sell"
                   /\ trade_history[i].quantity =
                          trade_history[LastBefore(s, i)].quantity
    /\ IsCall("day") =>
          \A n \in EventsOf("signal") :
              (Events[n].order.side = "BUY"
                  /\ Events[n].symbol \in DOMAIN pre.positions)
                  => \E x \in ExitsOf(Events[n].symbol) :
                        x < n /\ Events[x].order.status = "FILLED"

\* A second buy on the date of a stop-rule sell, after a first buy.
C28_Witness ==
    /\ IsCall("day")
    /\ Len(trade_history) >= 3
    /\ \E n \in EventsOf("signal") :
          /\ Events[n].order.side = "BUY"
          /\ Events[n].order.status = "FILLED"
          /\ Events[n].symbol \in DOMAIN pre.positions

\* The signal orders of today by outcome.
SignalOrders(side, filled) ==
    {n \in EventsOf("signal") :
        /\ Events[n].order.side = side
        /\ (Events[n].order.status = "FILLED") = filled}
Stamped(s) ==
    s \in DOMAIN backtester.last_trade_date
        /\ backtester.last_trade_date[s] = Today
StampKept(s) ==
    IF s \in DOMAIN pre.last_trade_date
    THEN s \in DOMAIN backtester.last_trade_date
            /\ backtester.last_trade_date[s] = pre.last_trade_date[s]
    ELSE s \notin DOMAIN backtester.last_trade_date

\* C29: a filled BUY of the signal branch leaves the running high of its
\* instrument at the order's fill price and the cooldown stamp at today; a
\* filled SELL of the signal branch leaves no running high and the stamp at
\* today; an order that is not filled leaves the stamp as it was and
\* creates no running high.
C29_TrackersOnFill ==
    IsCall("day") =>
        /\ \A n \in SignalOrders("BUY", TRUE) :
              /\ Events[n].symbol \in DOMAIN backtester.position_high
              /\ backtester.position_high[Events[n].symbol] =
                     Events[n].order.filled_price
              /\ Stamped(Events[n].symbol)
        /\ \A n \in SignalOrders("SELL", TRUE) :
              /\ Events[n].symbol \notin DOMAIN backtester.position_high
              /\ Stamped(Events[n].symbol)
        /\ \A n \in SignalOrders("BUY", FALSE) \cup SignalOrders("SELL", FALSE) :
              /\ StampKept(Events[n].symbol)
              /\ Events[n].symbol \in DOMAIN backtester.position_high
                    <=> Events[n].symbol \in DOMAIN positions

\* The entry of the open position of s: its last buy record.  The closes of
\* s on the dates after the entry date, up to the last date passed.
EntryOf(s) ==
    trade_history[LastBuy(trade_history, s, Len(trade_history))]
ClosesSince(s) ==
    {backtester.data[d + 1].prices[s] :
        d \in {d \in 0..Today : /\ d > EntryOf(s).date
                                /\ s \in DOMAIN backtester.data[d + 1].prices}}
Highest(S) == CHOOSE m \in S : \A x \in S : RGe(m, x)

\* C30: after every day the running highs are kept for exactly the open
\* positions, and the running high of an open position is the highest of
\* its seed and the closes since its entry.  The seed is taken from the
\* entry order (its price, the close of the entry date, or its fill price),
\* never from an earlier position.
C30_RunningHigh ==
    backtester.pc = "loop" =>
        /\ DOMAIN backtester.position_high = DOMAIN positions
        /\ \A s \in DOMAIN positions :
              \E seed \in {backtester.data[EntryOf(s).date + 1].prices[s],
                           EntryOf(s).price} :
                  backtester.position_high[s] =
                      Highest({seed} \cup ClosesSince(s))

\* A position opened on the date a position of the same instrument was
\* closed, with a running high below the one the closed position had.
C30_Witness ==
    /\ IsCall("day")
    /\ \E s \in DOMAIN positions \cap DOMAIN pre.position_high :
          /\ ExitsOf(s) # {}
          /\ RLt(backtester.position_high[s], pre.position_high[s])

----------------------------------------------------------------------------
(* Further properties of the OrderExecutor.                                *)

\* A BUY executed with the risk manager, its fill price, and the position
\* value and equity of the Portfolio before it.
RiskBuy == Executed /\ call.rm /\ OrderBefore.side = "BUY"
BuyFillPrice == FillPrice("BUY", OrderBefore.price, slippage)
ValueBefore == ValueOfPositions(pre.positions)
EquityBefore == EquityOf(pre.cash, pre.positions)
ExposureLimit == RMul(limits.max_total_position_pct, EquityBefore)
RequestedBreaches ==
    RGt(RAdd(ValueBefore, RMul(R(OrderBefore.quantity), BuyFillPrice)),
        ExposureLimit)
RejectedByExposure ==
    /\ OrderAfter.status = "REJECTED"
    /\ OrderAfter.reject_reason = "total exposure over limit"

\* C31: the exposure check of a BUY is made on the quantity the
\* position-size check left, at the fill price: the order is rejected by it
\* exactly when the position value before the order plus that value
\* exceeds max_total_position_pct of the equity, whatever the requested
\* value; and every FILLED BUY executed with the risk manager keeps the
\* position value before the fill plus filled_quantity * filled_price
\* within max_total_position_pct of the equity before the fill.
C31_ExposureOnClipped ==
    RiskBuy =>
        /\ OrderAfter.reject_reason
                  \notin {"position at limit", "portfolio value is zero"}
              => (RejectedByExposure <=>
                    RGt(RAdd(ValueBefore,
                             RMul(R(OrderAfter.quantity), BuyFillPrice)),
                        ExposureLimit))
        /\ OrderAfter.status = "FILLED" =>
              RLe(RAdd(ValueBefore,
                       RMul(R(OrderAfter.filled_quantity),
                            OrderAfter.filled_price)),
                  ExposureLimit)

\* A clipped BUY whose requested value breaches the exposure limit and
\* whose clipped value does not: it is filled.
C31_Witness ==
    /\ RiskBuy
    /\ RequestedBreaches
    /\ OrderAfter.status = "FILLED"
    /\ OrderAfter.filled_quantity < OrderBefore.quantity
    /\ ValueBefore # Zero

----------------------------------------------------------------------------
(* Further properties of the RiskManager, checked under SpecRisk.          *)

\* The conditions of a check_trailing_stop call, as the claim reads them:
\* the gain from the entry to the high reaches activation_pct, and the
\* pullback from the high reaches trailing_pct.
TrailingActivated ==
    RGe(RSub(call.args.highest_price, call.args.entry_price),
        RMul(call.args.activation_pct, call.args.entry_price))
TrailingPulledBack ==
    RGe(RSub(call.args.highest_price, call.args.current_price),
        RMul(call.args.trailing_pct, call.args.highest_price))

\* C32: check_trailing_stop never triggers for entry_price <= 0 or
\* highest_price <= 0, nor while the gain from the entry to the high is
\* below activation_pct; otherwise it triggers exactly when the pullback
\* from the high is trailing_pct or more.
C32_TrailingStop ==
    IsCall("check_trailing_stop") =>
        (ret.triggered <=>
            /\ RGt(call.args.entry_price, Zero)
            /\ RGt(call.args.highest_price, Zero)
            /\ TrailingActivated
            /\ TrailingPulledBack)

\* A call at both thresholds: entry 100, high 103 (gain exactly 3%) and
\* current 97.85 (pullback exactly 5%), which triggers.
C32_Witness ==
    /\ IsCall("check_trailing_stop")
    /\ call.args.entry_price = R(100)
    /\ call.args.highest_price = R(103)
    /\ call.args.current_price = Norm(9785, 100)
    /\ call.args.trailing_pct = Norm(5, 100)
    /\ call.args.activation_pct = Norm(3, 100)
    /\ ret.triggered

----------------------------------------------------------------------------
(* Properties of the signal fusion.                                        *)

\* The strategies with a signal of their own for symbol in the window of
\* date d, and the sum over them of weight, or of strength * weight.
Contributing(symbol, d) ==
    {k \in 1..Len(backtester.strategies) :
        LatestSignal(k, symbol, d) # NoSignal}
RECURSIVE SumOver(_, _, _, _)
SumOver(ks, symbol, d, weighted) ==
    IF ks = {} THEN Zero
    ELSE LET k == CHOOSE x \in ks : TRUE
             weight == backtester.strategies[k].weight
         IN  RAdd(IF weighted
                  THEN RMul(LatestSignal(k, symbol, d).strength, weight)
                  ELSE weight,
                  SumOver(ks \ {k}, symbol, d, weighted))
NamesDiffer ==
    \A i, j \in 1..Len(backtester.strategies) :
        backtester.strategies[i].name = backtester.strategies[j].name => i = j

\* C33: the fused strength of an instrument on a day is the average,
\* weighted by the strategies' weights, of the strengths of each strategy's
\* own latest signal in the window of the 5 dates up to today, strategies
\* without a signal in the window left out; it lies within [-1, 1].
C33_Fusion ==
    IsCall("day") =>
        \A s \in DOMAIN ret.fused :
            LET ks == Contributing(s, Today)
                f == ret.fused[s]
            IN  /\ f.combined_strength =
                       IF ks = {} THEN Zero
                       ELSE RDiv(SumOver(ks, s, Today, TRUE),
                                 SumOver(ks, s, Today, FALSE))
                /\ RLe(R(-1), f.combined_strength)
                /\ RLe(f.combined_strength, R(1))

----------------------------------------------------------------------------
(* The trade history of the Portfolio against the order history of the     *)
(* OrderExecutor, checked under SpecExec and SpecSmall.                    *)

\* OrderExecutor.get_filled_orders()
get_filled_orders == SelectSeq(order_history, LAMBDA o : o.status = "FILLED")

\* What a trade record and a FILLED order say of one execution.
TradeFields(t) ==
    [symbol |-> t.symbol, side |-> t.side, quantity |-> t.quantity,
     price |-> t.price, commission |-> t.commission]
OrderFields(o) ==
    [symbol |-> o.symbol, side |-> IF o.side = "BUY" THEN "buy" ELSE "sell",
     quantity |-> o.filled_quantity, price |-> o.filled_price,
     commission |-> o.commission]

\* The number of entries of the sequence s that say f.
Count(s, f, Fields(_)) == Cardinality({k \in DOMAIN s : Fields(s[k]) = f})

\* C34 as stated: the trade history and the FILLED orders correspond one to
\* one and in order: there are as many trade records as FILLED orders, and
\* the k-th trade record carries the instrument, side, filled_quantity,
\* filled_price and commission of the k-th FILLED order.
C34_AsStated ==
    /\ Len(trade_history) = Len(get_filled_orders)
    /\ \A k \in DOMAIN trade_history :
          TradeFields(trade_history[k]) = OrderFields(get_filled_orders[k])

\* C34 (amended): the trade history and the FILLED orders correspond one to
\* one, in the order in which the orders were executed, which need not be
\* the order of the order history: there are as many trade records as FILLED
\* orders, as many of them with any given instrument, side, quantity, price
\* and commission, and an execute_order that ends FILLED appends the one
\* trade record that carries its order's fields, any other call none.
C34_TradesAndOrders ==
    /\ Len(trade_history) = Len(get_filled_orders)
    /\ \A k \in DOMAIN trade_history :
          LET f == TradeFields(trade_history[k])
          IN  Count(trade_history, f, TradeFields)
                  = Count(get_filled_orders, f, OrderFields)
    /\ IF Executed /\ OrderAfter.status = "FILLED"
       THEN /\ Len(trade_history) = Len(pre.trade_history) + 1
            /\ SubSeq(trade_history, 1, Len(pre.trade_history))
                   = pre.trade_history
            /\ TradeFields(trade_history[Len(trade_history)])
                   = OrderFields(OrderAfter)
       ELSE trade_history = pre.trade_history

\* An order created later and executed first: the first trade record is the
\* second FILLED order's, under a risk manager that clipped a buy.
C34_Witness ==
    /\ Len(get_filled_orders) >= 2
    /\ TradeFields(trade_history[1]) # OrderFields(get_filled_orders[1])
    /\ \E k \in DOMAIN get_filled_orders :
          get_filled_orders[k].filled_quantity < 5000
              /\ get_filled_orders[k].filled_quantity > 100

----------------------------------------------------------------------------
(* The commission and the report of an order, checked under SpecExec and   *)
(* SpecSmall.                                                              *)

\* C35: the commission charged on every FILLED order is filled_quantity *
\* filled_price * commission_rate rounded to cents, also for a BUY order
\* whose quantity the position-size check reduced; it is the commission of
\* the trade record and the commission taken from the cash.
C35_Commission ==
    (Executed /\ OrderAfter.status = "FILLED") =>
        LET due == Round2(RMul(RMul(R(OrderAfter.filled_quantity),
                                    OrderAfter.filled_price),
                               commission_rate))
        IN  /\ OrderAfter.commission = due
            /\ trade_history[Len(trade_history)].commission = due

\* C39: a REJECTED order reports no execution: its filled_quantity,
\* filled_price and commission are all 0, whether a risk check rejected it
\* or Portfolio.buy/sell failed.
C39_RejectedReportsNothing ==
    (Executed /\ OrderAfter.status = "REJECTED") =>
        /\ OrderAfter.filled_quantity = 0
        /\ OrderAfter.filled_price = Zero
        /\ OrderAfter.commission = Zero

----------------------------------------------------------------------------
(* The accounting identity of the Portfolio, checked under Spec.           *)

\* The sum of the commissions of the trades of one side among the first n.
RECURSIVE CommissionsUpTo(_, _, _)
CommissionsUpTo(hist, side, n) ==
    IF n = 0 THEN Zero
    ELSE RAdd(CommissionsUpTo(hist, side, n - 1),
              IF hist[n].side = side THEN hist[n].commission ELSE Zero)

BuyCommissions == CommissionsUpTo(trade_history, "buy", Len(trade_history))
SellCommissions == CommissionsUpTo(trade_history, "sell", Len(trade_history))

\* metrics["total_pnl"] of _calculate_metrics
total_pnl == RSub(total_equity, initial_capital)

\* C36: after any sequence of successful and failed buys, sells and price
\* updates, total_equity - starting capital is the cumulative realized P&L
\* plus the unrealized P&L of the held positions minus the commissions of
\* the buy trades; with no commission paid, total P&L is realized plus
\* unrealized P&L.
C36_AccountingIdentity ==
    /\ total_pnl = RSub(RAdd(realized_pnl, unrealized_pnl), BuyCommissions)
    /\ (BuyCommissions = Zero /\ SellCommissions = Zero) =>
           total_pnl = RAdd(realized_pnl, unrealized_pnl)

\* A price update after a buy and a sell of a part that both paid a
\* commission, the rest being held at a price that is not its cost.
C36_Witness ==
    /\ IsCall("update_prices")
    /\ BuyCommissions # Zero
    /\ SellCommissions # Zero
    /\ unrealized_pnl # Zero
    /\ realized_pnl # Zero

----------------------------------------------------------------------------
(* The drawdown breaker on an empty Portfolio, checked under SpecExit.     *)

\* The pass of the daily loop just made hit the drawdown limit and left no
\* open position.
BreakerIdle == IsCall("day") /\ ret.drawdown_hit /\ positions = << >>

\* C37: when the drawdown check triggers on a day that holds no open
\* position, the equity no longer changes: the check triggers on the next
\* day of the run as well, which creates no order of any kind and again
\* holds no position, and so on every later day of the run.
C37_BreakerStays ==
    [][(BreakerIdle /\ call'.op = "day") =>
          /\ ret'.drawdown_hit
          /\ ret'.events = << >>
          /\ positions' = << >>
          /\ order_history' = order_history
          /\ trade_history' = trade_history
          /\ total_equity' = total_equity]_vars

\* A day out of cooldown with two BUY votes, the breaker having triggered
\* before and no position being held: the check triggers again and no order
\* is created.
C37_Witness ==
    /\ IsCall("day")
    /\ pre.seen.tripped
    /\ pre.positions = << >>
    /\ ret.drawdown_hit
    /\ ret.events = << >>
    /\ VotesFor("A", Today, "BUY") = 2
    /\ Today - pre.last_trade_date["A"] >= 10

----------------------------------------------------------------------------
(* Runs with fewer than two strategies, checked under SpecFew.             *)

\* C38: a run with fewer than two strategies never trades: no day creates
\* an order, the trade list stays empty, also in the result returned, and
\* every equity snapshot is the starting capital.
C38_FewStrategies ==
    Len(backtester.strategies) < 2 =>
        /\ order_history = << >>
        /\ trade_history = << >>
        /\ \A k \in DOMAIN equity_history :
              equity_history[k].equity = initial_capital
        /\ IsCall("day") => ret.events = << >>
        /\ IsCall("return") => ret.trades = << >>

\* A day of a run with one strategy whose BUY of strength 1 is fused to a
\* strength of 1, above the threshold, and no order is created.
C38_Witness ==
    /\ IsCall("day")
    /\ Len(backtester.strategies) = 1
    /\ VotesFor("A", Today, "BUY") = 1
    /\ ret.fused["A"].combined_strength = R(1)
    /\ RGe(R(1), backtester.signal_threshold)
    /\ Len(equity_history) = Today + 1

============================================================================
